---- MODULE Spec2Model ----
(***************************************************************************)
(* Model of the gohst rate limiter (internal/ratelimit): the token bucket, *)
(* the in-process MemoryStore, the Redis store's Lua script, the           *)
(* in-process concurrency store and the Limiter middleware.                *)
(*                                                                         *)
(* Time is in milliseconds.  Token counts are fractional in the code       *)
(* (float64); the model keeps them exact as integers scaled by the         *)
(* bucket's window in milliseconds: a bucket field `tokens` holds          *)
(* Tokens * window, so that elapsed_ms * limit is the refill of            *)
(* elapsed seconds at RefillRate = limit / window_seconds.                 *)
(***************************************************************************)
EXTENDS Integers, Sequences, FiniteSets, TLC

\* ------------------------------------------------------------------ bounds

MaxLimit == 2
MaxBurst == 2
MaxCost == 2
StepMs == 500
LongStepMs == 2500
MaxClock == 3000
SkewMs == 1
MaxSkews == 1
MaxProcs == 3
MaxReqs == 3
MaxConc == 2
FarSeconds == 100000
MaxXff == 2
MaxIdentReqs == 3
MaxConcCalls == 5

Keys == {"a", "b"}
Windows == {1000, 2000}
Costs == 1..MaxCost
Policies == [limit : 1..MaxLimit, burst : 0..MaxBurst, window : Windows]
\* a Policy as a caller may write it: Limit 0 included
AnyPolicies == [limit : 0..MaxLimit, burst : 0..MaxBurst, window : Windows]
StepSizes == {StepMs, LongStepMs}
Procs == 1..MaxProcs
Reqs == 1..MaxReqs
RedisWindows == {1000, 3000, 199000}
RedisPolicies == [limit : 1..MaxLimit, burst : {0}, window : RedisWindows]
Skews == {0, SkewMs}

\* ----------------------------------------------------------- arithmetic

Min(a, b) == IF a <= b THEN a ELSE b

Max(a, b) == IF a >= b THEN a ELSE b

\* floor(n / d) for d > 0 (TLA+'s \div rounds down)
FloorDiv(n, d) == n \div d

\* math.Ceil(n / d) for d > 0
CeilDiv(n, d) == -((-n) \div d)

\* Go's int(x) of the float n / d, d > 0: truncation toward zero
IntTrunc(n, d) == IF n >= 0 THEN n \div d ELSE -((-n) \div d)

\* ------------------------------------------------------------ the bucket

NoEntry == [absent |-> TRUE]

\* NewBucket that leaves the burst out of the first fill
NewBucketNoBurst(p, t) ==
  [tokens     |-> p.limit * p.window,
   max        |-> (p.limit + p.burst) * p.window,
   limit      |-> p.limit,
   window     |-> p.window,
   lastRefill |-> t]

\* NewBucket(p) with time.Now() = t: starts full
NewBucket(p, t) ==
  [tokens     |-> (p.limit + p.burst) * p.window,
   max        |-> (p.limit + p.burst) * p.window,
   limit      |-> p.limit,
   window     |-> p.window,
   lastRefill |-> t]

\* Bucket.refill that takes every timestamp as the new LastRefill
RefillAnyTime(b, now) ==
  [b EXCEPT !.tokens = Min(b.max, b.tokens + Max(0, now - b.lastRefill) * b.limit),
            !.lastRefill = now]

\* Bucket.refill without the cap at MaxTokens
RefillNoCap(b, now) ==
  LET elapsed == now - b.lastRefill
  IN  IF elapsed <= 0 THEN b
      ELSE [b EXCEPT !.tokens = b.tokens + elapsed * b.limit,
                     !.lastRefill = now]

\* Bucket.refill
Refill(b, now) ==
  LET elapsed == now - b.lastRefill
  IN  IF elapsed <= 0 THEN b
      ELSE [b EXCEPT !.tokens = Min(b.max, b.tokens + elapsed * b.limit),
                     !.lastRefill = now]

\* Bucket.Allow: refill, then consume `cost` tokens if there are that many
BucketAllow(b, cost, now) ==
  LET r == Refill(b, now)
      c == cost * r.window
  IN  IF r.tokens >= c
      THEN [b         |-> [r EXCEPT !.tokens = r.tokens - c],
            remaining |-> IntTrunc(r.tokens - c, r.window),
            allowed   |-> TRUE]
      ELSE [b |-> r, remaining |-> 0, allowed |-> FALSE]

\* Bucket.RetryAfter: whole seconds (as a float) until `cost` tokens are there
RetryAfter(b, cost) ==
  LET deficit == cost * b.window - b.tokens
  IN  IF deficit <= 0 THEN 0
      ELSE IF b.limit <= 0 THEN 0
      ELSE CeilDiv(deficit, b.limit * 1000)

\* how the build converts the float64 +Inf to a time.Duration: the conversion
\* is implementation-dependent, the smallest or the largest int64
DurOverflow == {"min", "max"}

\* the builds to tell apart under policy p: all alike unless RefillRate is 0
Overflows(p) == IF p.limit > 0 THEN {"max"} ELSE DurOverflow

\* Bucket.ResetUnix with time.Now() = t (ms): unix seconds of the full bucket.
\* With RefillRate = 0 the division gives +Inf, and the result is FarSeconds
\* (standing for 2^63 ns) before or after now, as the build converts it.
ResetUnix(b, t, ovf) ==
  LET deficit == b.max - b.tokens
  IN  IF deficit <= 0 THEN FloorDiv(t, 1000)
      ELSE IF b.limit = 0
           THEN FloorDiv(t, 1000) + (IF ovf = "min" THEN -FarSeconds ELSE FarSeconds)
      ELSE FloorDiv(t * b.limit + deficit, b.limit * 1000)

\* ------------------------------------------------- MemoryStore (in-process)

\* memEntry
Entry(b, exp) == [bucket |-> b, expiresAt |-> exp]

\* Result
Result(allowed, limit, remaining, retryAfter, resetAt) ==
  [allowed |-> allowed, limit |-> limit, remaining |-> remaining,
   retryAfter |-> retryAfter, resetAt |-> resetAt]

NoResult == Result(FALSE, 0, 0, 0, 0)

\* MemoryStore.Allow on the map es, called at time.Now() = now; t2 >= now is
\* the later time.Now() that NewBucket and ResetUnix read inside the call.
MemAllow(es, k, p, cost, now, t2, ovf) ==
  LET fresh == es[k] = NoEntry
      b0    == IF fresh THEN NewBucket(p, t2) ELSE es[k].bucket
      out   == BucketAllow(b0, cost, now)
      retry == IF out.allowed THEN 0
               ELSE Max(1, IntTrunc(RetryAfter(out.b, cost), 1))
  IN  [entries |-> [es EXCEPT ![k] = Entry(out.b, now + 2 * p.window)],
       result  |-> Result(out.allowed, p.limit + p.burst, out.remaining,
                          retry, ResetUnix(out.b, t2, ovf))]

\* MemoryStore.Reset that deletes nothing
MemResetKeep(es, k) == es

\* MemoryStore.Reset that clears the whole map
MemResetAll(es, k) == [x \in DOMAIN es |-> NoEntry]

\* MemoryStore.Reset: delete(s.entries, key)
MemReset(es, k) == [es EXCEPT ![k] = NoEntry]

\* a pass of MemoryStore.cleanup that also deletes at the expiry instant
MemSweepAtExpiry(es, ts) ==
  [k \in DOMAIN es |->
     IF es[k] # NoEntry /\ ts >= es[k].expiresAt THEN NoEntry ELSE es[k]]

\* one pass of MemoryStore.cleanup for the tick time ts
MemSweep(es, ts) ==
  [k \in DOMAIN es |->
     IF es[k] # NoEntry /\ ts > es[k].expiresAt THEN NoEntry ELSE es[k]]

\* ------------------------------------------------------------------ state

VARIABLES
  pol,       \* the Policy the store is used with
  keys,      \* the keys the callers use (fixed by Init)
  clock,     \* time.Now(), in ms
  nskew,     \* how often the clock advanced inside a call (bounded)
  entries,   \* MemoryStore.entries: key -> memEntry or NoEntry
  res,       \* the last operation and what it returned
  solo,      \* history: per key, a store that sees that key's calls only
  streak,    \* history: cost-1 calls on the key since it was created, clock still
  wasReset,  \* history: what the key's last operation, a Reset, removed (or "none")
  win,       \* history: an observer's interval start and the calls admitted since
  stop,      \* MemoryStore.stop: the channel, "open" or "closed"
  swp,       \* the cleanup goroutine: "running" or "exited"
  bkt,       \* a Bucket used directly, without a store
  bres,      \* the last Bucket.Allow on bkt and what it returned
  mu,        \* MemoryStore.mu: the goroutine holding it, or 0
  cpc,       \* per goroutine: where it stands inside MemoryStore.Allow
  cent,      \* s.entries[key] of the one key the goroutines share: an entry's address, or 0
  heap,      \* the memEntry objects by address (the goroutine that allocated it)
  ce,        \* per goroutine: its local e (an entry's address, or 0)
  cok,       \* per goroutine: what its call returned ("none" until it has)
  mcfg,      \* the Limiter's configuration (fixed by Init)
  inflight,  \* MemoryConcurrencyStore.inflight: key -> count, absent keys left out
  req,       \* per HTTP request: where it stands inside Limiter.Middleware
  rdb,       \* the Redis hashes of the buckets: key -> fields and expiry, or NoEntry
  rdeny,     \* history: per key, the last denial if nothing touched the key since
  rres,      \* the last RedisStore operation and what it returned
  ipcfg,     \* config.RateLimit.TrustedProxies (fixed by Init)
  ipq,       \* the last request handed to ClientIP and the key functions
  ipres,     \* what they returned for it
  sw         \* the cleanup goroutine in detail: its position, its tick, and
             \* (history) its position when Close was first called

storeVars == <<keys, clock, nskew, entries, res, solo, streak, wasReset, win, stop, swp>>

bucketVars == <<bkt, bres>>

concVars == <<mu, cpc, cent, heap, ce, cok>>

mwVars == <<mcfg, inflight, req>>

redisVars == <<rdb, rdeny, rres>>

ipVars == <<ipcfg, ipq, ipres>>

vars == <<pol, storeVars, bucketVars, concVars, mwVars, redisVars, ipVars, sw>>

\* ------------------------------------------------- MemoryStore: the actions

NoOp ==
  [kind |-> "none", key |-> "", cost |-> 0, now |-> 0, out |-> NoResult,
   soloOut |-> NoResult, nth |-> 0, afterReset |-> "none", fresh |-> FALSE,
   err |-> "none"]

MaxTokens(p) == p.limit + p.burst

NoWindow == [key |-> "", from |-> 0, count |-> 0]

NoCall == [kind |-> "none", cost |-> 0, now |-> 0, allowed |-> FALSE,
           remaining |-> 0, raw |-> 0, before |-> 0]

\* a new store; sk of the MaxSkews late clock reads of NewBucket are spent
StoreInit(ks, ps, sk) ==
  /\ pol \in ps
  /\ keys = ks
  /\ clock = 0
  /\ nskew = sk
  /\ entries = [k \in Keys |-> NoEntry]
  /\ res = NoOp
  /\ solo = [k \in Keys |-> [x \in {k} |-> NoEntry]]
  /\ streak = [k \in Keys |-> 0]
  /\ wasReset = [k \in Keys |-> "none"]
  /\ win = NoWindow
  /\ stop = "open"
  /\ swp = "running"

\* store.Allow(k, pol, cost)
Allow(k, cost) ==
  \E skew \in Skews, ovf \in Overflows(pol) :
    /\ skew > 0 => nskew < MaxSkews
    /\ clock + skew <= MaxClock
    /\ LET fresh == entries[k] = NoEntry
           r == MemAllow(entries, k, pol, cost, clock, clock + skew, ovf)
           s == MemAllow(solo[k], k, pol, cost, clock, clock + skew, ovf)
           n == IF cost = 1 /\ (fresh \/ streak[k] > 0)
                THEN Min(streak[k] + 1, MaxTokens(pol) + 2) ELSE 0
       IN  /\ entries' = r.entries
           /\ solo' = [solo EXCEPT ![k] = s.entries]
           /\ clock' = clock + skew
           /\ nskew' = IF skew > 0 THEN nskew + 1 ELSE nskew
           /\ streak' = [x \in Keys |->
                           IF x = k THEN (IF skew > 0 /\ ~fresh THEN 0 ELSE n)
                           ELSE IF skew > 0 THEN 0 ELSE streak[x]]
           /\ wasReset' = [wasReset EXCEPT ![k] = "none"]
           /\ win' = IF win.key = k /\ r.result.allowed
                     THEN [win EXCEPT !.count = @ + 1] ELSE win
           /\ res' = [kind |-> "allow", key |-> k, cost |-> cost, now |-> clock,
                      out |-> r.result, soloOut |-> s.result, nth |-> n,
                      afterReset |-> wasReset[k], fresh |-> fresh,
                      err |-> "none"]
    /\ UNCHANGED <<pol, keys, stop, swp>>

\* store.Reset(k)
Reset(k) ==
  /\ entries' = MemReset(entries, k)
  /\ solo' = [solo EXCEPT ![k] = MemReset(@, k)]
  /\ streak' = [streak EXCEPT ![k] = 0]
  /\ wasReset' = [wasReset EXCEPT ![k] =
                    IF entries[k] = NoEntry THEN "absent"
                    ELSE IF entries[k].bucket.tokens < entries[k].bucket.window THEN "exhausted"
                    ELSE "part"]
  /\ res' = [NoOp EXCEPT !.kind = "reset", !.key = k, !.now = clock]
  /\ UNCHANGED <<pol, keys, clock, nskew, win, stop, swp>>

\* the sweeper's ticker fires; its tick time ts may be older than the clock
\* by the time the sweeper holds the mutex
Sweep ==
  \E ts \in {clock, Max(0, clock - StepMs)} :
    /\ swp = "running"
    /\ entries' = MemSweep(entries, ts)
    /\ solo' = [k \in Keys |-> MemSweep(solo[k], ts)]
    /\ streak' = [k \in Keys |-> IF entries'[k] = NoEntry THEN 0 ELSE streak[k]]
    /\ res' = [NoOp EXCEPT !.kind = "sweep", !.now = ts]
    /\ UNCHANGED <<pol, keys, clock, nskew, wasReset, win, stop, swp>>

\* time passes between two operations
Tick ==
  \E d \in StepSizes :
    /\ clock + d <= MaxClock
    /\ clock' = clock + d
    /\ streak' = [k \in Keys |-> 0]
    /\ res' = [NoOp EXCEPT !.kind = "tick", !.now = clock + d]
    /\ UNCHANGED <<pol, keys, nskew, entries, solo, wasReset, win, stop, swp>>

\* store.Close(): close(s.stop); closing a closed channel panics
Close ==
  /\ stop' = "closed"
  /\ res' = [NoOp EXCEPT !.kind = "close", !.now = clock,
                         !.err = IF stop = "closed" THEN "panic" ELSE "none"]
  /\ UNCHANGED <<pol, keys, clock, nskew, entries, solo, streak, wasReset, win, swp>>

\* the cleanup goroutine receives from the closed s.stop and returns
SweeperExit ==
  /\ stop = "closed"
  /\ swp = "running"
  /\ swp' = "exited"
  /\ res' = [NoOp EXCEPT !.kind = "exit", !.now = clock]
  /\ UNCHANGED <<pol, keys, clock, nskew, entries, solo, streak, wasReset, win, stop>>

StoreNext ==
  \/ \E k \in keys, c \in Costs : Allow(k, c)
  \/ \E k \in keys : Reset(k)
  \/ Sweep
  \/ Tick

\* no Bucket is in use outside the store
BucketIdle == bkt = NoEntry /\ bres = NoCall

\* no request has been handed to ClientIP or a key function
NoIpReq == [none |-> TRUE]

IpIdle == ipcfg = <<>> /\ ipq = NoIpReq /\ ipres = NoIpReq

\* the cleanup goroutine in its select, no tick received
NoSweeper == [pc |-> "select", ts |-> -1, at |-> "none"]

SweeperIdle == sw = NoSweeper

\* no goroutine is inside MemoryStore.Allow
ConcIdle ==
  /\ mu = 0
  /\ cpc = [p \in Procs |-> "idle"]
  /\ cent = 0
  /\ heap = [p \in Procs |-> NoEntry]
  /\ ce = [p \in Procs |-> 0]
  /\ cok = [p \in Procs |-> "none"]

\* no Limiter is in use
\* the response as the limiter has written it: the status (0: none), the
\* X-RateLimit-* headers, Retry-After, whether an OnLimit callback took over,
\* and the number of seconds the 429 body names (-1: no body)
NoResp == [status |-> 0, hdrs |-> FALSE, limit |-> 0, remaining |-> 0, reset |-> 0,
           retrySet |-> FALSE, retry |-> 0, custom |-> FALSE, body |-> -1]

\* a request that has not arrived; calls, evals and allows count the runs of
\* next.ServeHTTP, of the allowlist loop and of store.Allow; slot is the
\* boolean Acquire returned ("got", "refused") or "none"; logs counts the
\* calls of logStore.Log and logErr is whether it returned an error; cur is
\* the count Acquire found and val the value its Release's DECR returned
NoReq == [pc |-> "new", key |-> "", held |-> FALSE, out |-> "none",
          acq |-> 0, rel |-> 0, result |-> NoResult, listed |-> FALSE,
          evals |-> 0, calls |-> 0, allows |-> 0, acqErr |-> FALSE,
          relErr |-> FALSE, storeErr |-> FALSE, slot |-> "none", w |-> NoResp,
          logs |-> 0, logErr |-> FALSE, cur |-> 0, val |-> 0,
          entry |-> [keyType |-> "", scope |-> "", retryAfter |-> -1]]

MwIdle ==
  /\ mcfg = [global |-> FALSE, enabled |-> FALSE, conc |-> 0, hasConc |-> FALSE,
             cost |-> 0, onLimit |-> "none", store |-> "memory", cstore |-> "memory",
             logStore |-> "none"]
  /\ inflight = <<>>
  /\ req = [r \in Reqs |-> NoReq]

\* no RedisStore is in use
NoDeny == [at |-> -1, retry |-> 0, cost |-> 0]

\* before and had are the last_ms and the tokens the script found (-1 and 0
\* when the key was missing)
NoRedisOp ==
  [kind |-> "none", key |-> "", cost |-> 0, now |-> 0, err |-> "none",
   out |-> NoResult, retryMs |-> 0, tokens |-> 0, rate |-> 0, retryDue |-> FALSE,
   wasAbsent |-> FALSE, before |-> -1, had |-> 0]

RedisIdle ==
  /\ rdb = [k \in Keys |-> NoEntry]
  /\ rdeny = [k \in Keys |-> NoDeny]
  /\ rres = NoRedisOp

\* one key, every policy
Init ==
  StoreInit({"a"}, Policies, 0) /\ BucketIdle /\ ConcIdle /\ MwIdle /\ RedisIdle /\ IpIdle
  /\ SweeperIdle

Next == StoreNext /\ UNCHANGED <<bucketVars, concVars, mwVars, redisVars, ipVars, sw>>

Spec == Init /\ [][Next]_vars

\* two keys under one policy
InitKeys ==
  /\ StoreInit(Keys, {p \in Policies : p.limit = 1 /\ p.window = 1000}, MaxSkews)
  /\ BucketIdle
  /\ ConcIdle
  /\ SweeperIdle
  /\ IpIdle
  /\ MwIdle
  /\ RedisIdle

SpecKeys == InitKeys /\ [][Next]_vars

\* a store that is closed, any number of times, while it is in use
InitClose ==
  /\ StoreInit({"a"}, {p \in Policies : p.limit = 1 /\ p.window = 1000}, MaxSkews)
  /\ BucketIdle
  /\ ConcIdle
  /\ SweeperIdle
  /\ IpIdle
  /\ MwIdle
  /\ RedisIdle

NextClose ==
  /\ \/ \E k \in keys, c \in Costs : Allow(k, c)
     \/ \E k \in keys : Reset(k)
     \/ Sweep
     \/ Tick
     \/ Close
     \/ SweeperExit
  /\ UNCHANGED <<bucketVars, concVars, mwVars, redisVars, ipVars, sw>>

SpecClose == InitClose /\ [][NextClose]_vars

\* ------------------------- MemoryStore.cleanup, statement by statement

\* the value of s.mu while the cleanup goroutine holds it
Sweeper == 0 - 1

SweepFrame == UNCHANGED <<bucketVars, cpc, cent, heap, ce, cok, mwVars, redisVars, ipVars>>

\* a caller's Allow; it holds s.mu from its first statement to its return
LockedAllow(k, cost) ==
  /\ mu = 0
  /\ Allow(k, cost)
  /\ UNCHANGED <<mu, sw>>
  /\ SweepFrame

\* a caller's Reset, under s.mu as well
LockedReset(k) ==
  /\ mu = 0
  /\ Reset(k)
  /\ UNCHANGED <<mu, sw>>
  /\ SweepFrame

SweeperTime ==
  /\ Tick
  /\ UNCHANGED <<mu, sw>>
  /\ SweepFrame

\* Close, called once, wherever the cleanup goroutine stands
CloseOnce ==
  /\ stop = "open"
  /\ Close
  /\ sw' = [sw EXCEPT !.at = sw.pc]
  /\ UNCHANGED mu
  /\ SweepFrame

\* select: case now := <-ticker.C
CleanupTick ==
  \E ts \in {clock, Max(0, clock - StepMs)} :
    /\ swp = "running"
    /\ sw.pc = "select"
    /\ sw' = [sw EXCEPT !.pc = "lock", !.ts = ts]
    /\ UNCHANGED <<pol, storeVars, mu>>
    /\ SweepFrame

\* s.mu.Lock() in cleanup
CleanupLock ==
  /\ sw.pc = "lock"
  /\ mu = 0
  /\ mu' = Sweeper
  /\ sw' = [sw EXCEPT !.pc = "sweep"]
  /\ UNCHANGED <<pol, storeVars>>
  /\ SweepFrame

\* the loop over s.entries and s.mu.Unlock()
CleanupSweep ==
  /\ sw.pc = "sweep"
  /\ entries' = MemSweep(entries, sw.ts)
  /\ solo' = [k \in Keys |-> MemSweep(solo[k], sw.ts)]
  /\ streak' = [k \in Keys |-> IF entries'[k] = NoEntry THEN 0 ELSE streak[k]]
  /\ res' = [NoOp EXCEPT !.kind = "sweep", !.now = sw.ts]
  /\ mu' = 0
  /\ sw' = [sw EXCEPT !.pc = "select", !.ts = -1]
  /\ UNCHANGED <<pol, keys, clock, nskew, wasReset, win, stop, swp>>
  /\ SweepFrame

\* a cleanup that looks at s.stop once it holds the lock and returns there
CleanupStopLocked ==
  /\ stop = "closed"
  /\ swp = "running"
  /\ sw.pc = "sweep"
  /\ swp' = "exited"
  /\ res' = [NoOp EXCEPT !.kind = "exit", !.now = clock]
  /\ sw' = [sw EXCEPT !.pc = "exited"]
  /\ UNCHANGED <<pol, keys, clock, nskew, entries, solo, streak, wasReset, win, stop, mu>>
  /\ SweepFrame

\* select: case <-s.stop: return
CleanupStop ==
  /\ sw.pc = "select"
  /\ SweeperExit
  /\ sw' = [sw EXCEPT !.pc = "exited"]
  /\ UNCHANGED mu
  /\ SweepFrame

InitSweeper ==
  /\ StoreInit({"a"}, {p \in Policies : p.limit = 1 /\ p.burst = 0 /\ p.window = 1000},
               MaxSkews)
  /\ BucketIdle
  /\ ConcIdle
  /\ SweeperIdle
  /\ IpIdle
  /\ MwIdle
  /\ RedisIdle

NextSweeper ==
  \/ \E k \in keys, c \in Costs : LockedAllow(k, c)
  \/ \E k \in keys : LockedReset(k)
  \/ SweeperTime
  \/ CloseOnce
  \/ CleanupTick
  \/ CleanupLock
  \/ CleanupSweep
  \/ CleanupStop

\* the goroutine is scheduled while it can run, and a select with both
\* channels ready picks each of them again and again
SpecSweeper ==
  /\ InitSweeper
  /\ [][NextSweeper]_vars
  /\ WF_vars(CleanupLock)
  /\ WF_vars(CleanupSweep)
  /\ SF_vars(CleanupStop)

\* an observer starts counting the admitted calls of key k at this instant
Observe(k) ==
  /\ win = NoWindow
  /\ win' = [key |-> k, from |-> clock, count |-> 0]
  /\ res' = [NoOp EXCEPT !.kind = "observe", !.key = k, !.now = clock]
  /\ UNCHANGED <<pol, keys, clock, nskew, entries, solo, streak, wasReset, stop, swp>>

\* allow calls and sweeper runs only: a Reset hands out a full bucket at will
NextRate ==
  /\ \/ \E k \in keys, c \in Costs : Allow(k, c)
     \/ Sweep
     \/ Tick
     \/ \E k \in keys : Observe(k)
  /\ UNCHANGED <<bucketVars, concVars, mwVars, redisVars, ipVars, sw>>

\* one key, every policy, and an observer of the admission rate
SpecRate == Init /\ [][NextRate]_vars

\* ----------------------------------------------- a Bucket used on its own

\* the timestamps a caller may pass to Bucket.Allow, in any order
BucketTimes == {n * StepMs : n \in 0..(MaxClock \div StepMs)}

\* the store's variables when no store is in use
StoreIdle ==
  /\ keys = {}
  /\ clock = 0
  /\ nskew = 0
  /\ entries = [k \in Keys |-> NoEntry]
  /\ res = NoOp
  /\ solo = [k \in Keys |-> [x \in {k} |-> NoEntry]]
  /\ streak = [k \in Keys |-> 0]
  /\ wasReset = [k \in Keys |-> "none"]
  /\ win = NoWindow
  /\ stop = "open"
  /\ swp = "running"

\* b := NewBucket(p) at some time
InitBucket ==
  /\ pol \in Policies
  /\ \E t \in BucketTimes : bkt = NewBucket(pol, t)
  /\ bres = NoCall
  /\ StoreIdle
  /\ ConcIdle
  /\ SweeperIdle
  /\ IpIdle
  /\ MwIdle
  /\ RedisIdle

\* b.Allow(cost, now) with any timestamp, earlier ones included
BAllow(cost, now) ==
  LET out == BucketAllow(bkt, cost, now)
  IN  /\ bkt' = out.b
      /\ bres' = [kind |-> "allow", cost |-> cost, now |-> now,
                  allowed |-> out.allowed, remaining |-> out.remaining,
                  raw |-> bkt.tokens + Max(0, now - bkt.lastRefill) * bkt.limit,
                  before |-> bkt.lastRefill]
      /\ UNCHANGED <<pol, storeVars, concVars, mwVars, redisVars, ipVars, sw>>

NextBucket == \E c \in Costs, t \in BucketTimes : BAllow(c, t)

SpecBucket == InitBucket /\ [][NextBucket]_vars

\* --------------------------- MemoryStore.Allow, statement by statement, by
\* --------------------------- goroutines that call it for one key, cost 1

\* s.mu.Lock() that does not wait for the holder
CanLockAlways(m) == TRUE

\* s.mu.Lock() returns only when nobody holds the mutex
CanLock(m) == m = 0

InitConc ==
  /\ pol \in Policies
  /\ ConcIdle
  /\ SweeperIdle
  /\ IpIdle
  /\ StoreIdle
  /\ BucketIdle
  /\ MwIdle
  /\ RedisIdle

ConcFrame == UNCHANGED <<pol, storeVars, bucketVars, mwVars, redisVars, ipVars, sw>>

\* s.mu.Lock(); defer s.mu.Unlock(); now := time.Now()
CLock(p) ==
  /\ cpc[p] = "idle"
  /\ CanLock(mu)
  /\ mu' = p
  /\ cpc' = [cpc EXCEPT ![p] = "lookup"]
  /\ UNCHANGED <<cent, heap, ce, cok>>
  /\ ConcFrame

\* e, ok := s.entries[key]
CLookup(p) ==
  /\ cpc[p] = "lookup"
  /\ ce' = [ce EXCEPT ![p] = cent]
  /\ cpc' = [cpc EXCEPT ![p] = IF cent = 0 THEN "create" ELSE "touch"]
  /\ UNCHANGED <<mu, cent, heap, cok>>
  /\ ConcFrame

\* b := NewBucket(policy); e = &memEntry{...}; s.entries[key] = e
CCreate(p) ==
  /\ cpc[p] = "create"
  /\ heap' = [heap EXCEPT ![p] = Entry(NewBucket(pol, 0), 2 * pol.window)]
  /\ ce' = [ce EXCEPT ![p] = p]
  /\ cent' = p
  /\ cpc' = [cpc EXCEPT ![p] = "touch"]
  /\ UNCHANGED <<mu, cok>>
  /\ ConcFrame

\* e.expiresAt = now.Add(policy.Window * 2); then b.refill(now) in Bucket.Allow
CTouch(p) ==
  /\ cpc[p] = "touch"
  /\ heap' = [heap EXCEPT ![ce[p]] =
                Entry(Refill(heap[ce[p]].bucket, 0), 2 * pol.window)]
  /\ cpc' = [cpc EXCEPT ![p] = "test"]
  /\ UNCHANGED <<mu, cent, ce, cok>>
  /\ ConcFrame

\* if b.Tokens >= c
CTest(p) ==
  /\ cpc[p] = "test"
  /\ LET b == heap[ce[p]].bucket
     IN  IF b.tokens >= 1 * b.window
         THEN /\ cpc' = [cpc EXCEPT ![p] = "charge"]
              /\ cok' = cok
         ELSE /\ cpc' = [cpc EXCEPT ![p] = "unlock"]
              /\ cok' = [cok EXCEPT ![p] = "denied"]
  /\ UNCHANGED <<mu, cent, heap, ce>>
  /\ ConcFrame

\* b.Tokens -= c; return int(b.Tokens), true
CCharge(p) ==
  /\ cpc[p] = "charge"
  /\ heap' = [heap EXCEPT ![ce[p]].bucket.tokens = @ - 1 * heap[ce[p]].bucket.window]
  /\ cok' = [cok EXCEPT ![p] = "allowed"]
  /\ cpc' = [cpc EXCEPT ![p] = "unlock"]
  /\ UNCHANGED <<mu, cent, ce>>
  /\ ConcFrame

\* return res, and the deferred s.mu.Unlock()
CUnlock(p) ==
  /\ cpc[p] = "unlock"
  /\ mu' = IF mu = p THEN 0 ELSE mu
  /\ cpc' = [cpc EXCEPT ![p] = "done"]
  /\ UNCHANGED <<cent, heap, ce, cok>>
  /\ ConcFrame

NextConc ==
  \E p \in Procs :
    \/ CLock(p)
    \/ CLookup(p)
    \/ CCreate(p)
    \/ CTouch(p)
    \/ CTest(p)
    \/ CCharge(p)
    \/ CUnlock(p)

SpecConc == InitConc /\ [][NextConc]_vars

\* the goroutines between Lock and Unlock
InSection(p) == cpc[p] \in {"lookup", "create", "touch", "test", "charge", "unlock"}

Admitted == {p \in Procs : cok[p] = "allowed"}

Returned == {p \in Procs : cpc[p] = "done"}

\* ------------------------------------------------ MemoryConcurrencyStore

\* m.inflight[key]: a missing key reads as 0
InflightOf(inf, k) == IF k \in DOMAIN inf THEN inf[k] ELSE 0

\* the map inf with inf[k] = n, the key deleted when n = 0
InflightPut(inf, k, n) ==
  [x \in (IF n = 0 THEN DOMAIN inf \ {k} ELSE DOMAIN inf \cup {k}) |->
     IF x = k THEN n ELSE inf[x]]

\* Acquire that refuses only above the limit
ConcAcquireOffByOne(inf, k, limit) ==
  IF InflightOf(inf, k) > limit
  THEN [ok |-> FALSE, inflight |-> inf]
  ELSE [ok |-> TRUE, inflight |-> InflightPut(inf, k, InflightOf(inf, k) + 1)]

\* MemoryConcurrencyStore.Acquire
ConcAcquire(inf, k, limit) ==
  IF InflightOf(inf, k) >= limit
  THEN [ok |-> FALSE, inflight |-> inf]
  ELSE [ok |-> TRUE, inflight |-> InflightPut(inf, k, InflightOf(inf, k) + 1)]

\* Release that leaves the key in the map with the count 0
ConcReleaseKeepZero(inf, k) ==
  LET n == IF InflightOf(inf, k) > 0 THEN InflightOf(inf, k) - 1
           ELSE InflightOf(inf, k)
  IN  [x \in DOMAIN inf \cup {k} |-> IF x = k THEN n ELSE inf[x]]

\* MemoryConcurrencyStore.Release
ConcRelease(inf, k) ==
  LET n == IF InflightOf(inf, k) > 0 THEN InflightOf(inf, k) - 1
           ELSE InflightOf(inf, k)
  IN  InflightPut(inf, k, n)

\* ------------------------------------------------------------- RedisStore
\* The script's numbers are kept exact as integers: the rate in units of
\* 1/RateUnit tokens per second (what "%.4f" keeps of it), the tokens in
\* units of 1/TokUnit, so that elapsed_ms * rate is the refill.

RateUnit == 10000

TokUnit == RateUnit * 1000

\* fmt.Sprintf("%.4f", refillRate): limit / window_seconds rounded to four
\* decimals, in units of 1/RateUnit
Rate4(p) == (2 * p.limit * 1000 * RateUnit + p.window) \div (2 * p.window)

\* math.ceil(deficit / 0 * 1000): the script's retry_ms is +Inf when the
\* rate it was given is "0.0000"
LuaInf == 0 - 1

\* the integer the reply carries for a retry_ms of +Inf: the cast of +Inf to
\* a 64-bit integer is the least or the greatest of them, by the build;
\* FarSeconds stands for 2^63 ms
RedisOverflows(p) == IF Rate4(p) > 0 THEN {"max"} ELSE DurOverflow

\* luaTokenBucket on the hash e (NoEntry when the key is missing)
LuaTokenBucket(e, max, rate, cost, nowMs) ==
  LET tokens0  == IF e = NoEntry THEN max ELSE e.tokens
      last0    == IF e = NoEntry THEN nowMs ELSE e.lastMs
      elapsed  == nowMs - last0
      tokens1  == IF elapsed > 0 THEN Min(max, tokens0 + elapsed * rate) ELSE tokens0
      last1    == IF elapsed > 0 THEN nowMs ELSE last0
      c        == cost * TokUnit
      allowed  == tokens1 >= c
      tokens2  == IF allowed THEN tokens1 - c ELSE tokens1
      full     == max - tokens2
      resetS   == IF full > 0 /\ rate > 0 THEN CeilDiv(full, rate * 1000) ELSE 0
  IN  [tokens    |-> tokens2,
       lastMs    |-> last1,
       allowed   |-> allowed,
       remaining |-> FloorDiv(tokens2, TokUnit),
       retryMs   |-> IF allowed THEN 0
                     ELSE IF rate = 0 THEN LuaInf
                     ELSE CeilDiv(c - tokens1, rate),
       resetAt   |-> FloorDiv(nowMs, 1000) + resetS]

\* retryAfter := retryMs / 1000; if !allowed && retryAfter < 1 { retryAfter = 1 }
RetrySeconds(retryMs, allowed) ==
  IF ~allowed /\ IntTrunc(retryMs, 1000) < 1 THEN 1 ELSE IntTrunc(retryMs, 1000)

\* the hash of key k as the server sees it at nowMs: an expired key is gone
RedisGet(db, k, nowMs) ==
  IF db[k] # NoEntry /\ nowMs < db[k].expireAt THEN db[k] ELSE NoEntry

\* RedisStore.Allow when the script runs and its reply arrives
RedisAllow(db, k, p, cost, nowMs, ovf) ==
  LET ttl == (p.window \div 1000) * 2
      lua == LuaTokenBucket(RedisGet(db, k, nowMs), MaxTokens(p) * TokUnit,
                            Rate4(p), cost, nowMs)
      ms  == IF lua.retryMs # LuaInf THEN lua.retryMs
             ELSE IF ovf = "min" THEN (0 - FarSeconds) * 1000 ELSE FarSeconds * 1000
  IN  [db     |-> [db EXCEPT ![k] =
                     IF ttl <= 0 THEN NoEntry
                     ELSE [tokens |-> lua.tokens, lastMs |-> lua.lastMs,
                           expireAt |-> nowMs + ttl * 1000]],
       lua    |-> lua,
       result |-> Result(lua.allowed, MaxTokens(p), lua.remaining,
                         RetrySeconds(ms, lua.allowed), lua.resetAt)]

\* RedisStore.Allow that answers an error of the script call with a denial
FailClosed(p) == Result(FALSE, MaxTokens(p), 0, 1, 0)

\* RedisStore.Allow when the script call returns an error: fail open
FailOpen(p) == Result(TRUE, MaxTokens(p), MaxTokens(p), 0, 0)

\* "none": the call succeeds; "unsent": it fails before the script runs;
\* "lost": the script runs and the reply is lost
RedisErrors == {"none", "unsent", "lost"}

InitRedis ==
  /\ pol \in RedisPolicies
  /\ keys = {"a"}
  /\ clock = 0
  /\ nskew = 0
  /\ entries = [k \in Keys |-> NoEntry]
  /\ res = NoOp
  /\ solo = [k \in Keys |-> [x \in {k} |-> NoEntry]]
  /\ streak = [k \in Keys |-> 0]
  /\ wasReset = [k \in Keys |-> "none"]
  /\ win = NoWindow
  /\ stop = "open"
  /\ swp = "running"
  /\ RedisIdle
  /\ BucketIdle
  /\ ConcIdle
  /\ SweeperIdle
  /\ IpIdle
  /\ MwIdle

\* store.Allow(k, pol, cost) on the RedisStore
RAllow(k, cost) ==
  \E err \in RedisErrors, ovf \in RedisOverflows(pol) :
    LET r   == RedisAllow(rdb, k, pol, cost, clock, ovf)
        out == IF err = "none" THEN r.result ELSE FailOpen(pol)
        ran == err # "unsent"
        due == /\ rdeny[k].at >= 0
               /\ rdeny[k].cost = cost
               /\ cost <= MaxTokens(pol)
               /\ clock = rdeny[k].at + rdeny[k].retry * 1000
    IN  /\ rdb' = IF ran THEN r.db ELSE rdb
        /\ rdeny' = [rdeny EXCEPT ![k] =
                       IF err = "none" /\ ~out.allowed
                       THEN [at |-> clock, retry |-> out.retryAfter, cost |-> cost]
                       ELSE IF ran THEN NoDeny ELSE @]
        /\ rres' = [kind |-> "allow", key |-> k, cost |-> cost, now |-> clock,
                    err |-> err, out |-> out,
                    retryMs |-> IF err = "none" THEN r.lua.retryMs ELSE 0,
                    tokens |-> IF err = "none" THEN r.lua.tokens ELSE 0,
                    rate |-> Rate4(pol),
                    retryDue |-> err = "none" /\ due,
                    wasAbsent |-> rdb[k] = NoEntry,
                    before |-> IF RedisGet(rdb, k, clock) = NoEntry THEN -1
                               ELSE rdb[k].lastMs,
                    had |-> IF RedisGet(rdb, k, clock) = NoEntry THEN 0
                            ELSE rdb[k].tokens]
        /\ UNCHANGED <<pol, storeVars, bucketVars, concVars, mwVars, ipVars, sw>>

\* DEL that removes nothing
RedisDelNone(db, k) == db

\* DEL key
RedisDel(db, k) == [db EXCEPT ![k] = NoEntry]

\* store.Reset(k) on the RedisStore: DEL, whose error is returned
RReset(k) ==
  \E err \in RedisErrors :
    LET ran == err # "unsent"
    IN  /\ rdb' = IF ran THEN RedisDel(rdb, k) ELSE rdb
        /\ rdeny' = [rdeny EXCEPT ![k] = IF ran THEN NoDeny ELSE @]
        /\ rres' = [NoRedisOp EXCEPT !.kind = "reset", !.key = k, !.now = clock,
                                     !.err = err, !.wasAbsent = rdb[k] = NoEntry]
        /\ UNCHANGED <<pol, storeVars, bucketVars, concVars, mwVars, ipVars, sw>>

NextRedis ==
  \/ \E k \in keys, c \in Costs : RAllow(k, c)
  \/ \E k \in keys : RReset(k)
  \/ Tick /\ UNCHANGED <<bucketVars, concVars, mwVars, redisVars, ipVars, sw>>

SpecRedis == InitRedis /\ [][NextRedis]_vars

\* windows that are no whole number of seconds
FracWindows == {500, 1500}

\* a RedisStore used with a window of half a second or of one and a half
InitRedisFrac ==
  /\ pol \in [limit : 1..MaxLimit, burst : {0}, window : FracWindows]
  /\ StoreIdle
  /\ RedisIdle
  /\ BucketIdle
  /\ ConcIdle
  /\ SweeperIdle
  /\ IpIdle
  /\ MwIdle

NextRedisFrac ==
  \/ \E c \in Costs : RAllow("a", c)
  \/ RReset("a")
  \/ Tick /\ UNCHANGED <<bucketVars, concVars, mwVars, redisVars, ipVars, sw>>

SpecRedisFrac == InitRedisFrac /\ [][NextRedisFrac]_vars

\* 24 * time.Hour, in ms
DayMs == 86400000

\* a RedisStore used with a daily limit
InitRedisDay ==
  /\ pol \in [limit : 1..MaxLimit, burst : {0}, window : {DayMs}]
  /\ StoreIdle
  /\ RedisIdle
  /\ BucketIdle
  /\ ConcIdle
  /\ SweeperIdle
  /\ IpIdle
  /\ MwIdle

SpecRedisDay == InitRedisDay /\ [][NextRedisFrac]_vars

\* both stores, each with its own callers, under one policy and one clock
InitReset ==
  /\ StoreInit({"a"}, {p \in Policies : p.limit = 1 /\ p.burst = 0 /\ p.window = 1000},
               MaxSkews)
  /\ RedisIdle
  /\ BucketIdle
  /\ ConcIdle
  /\ SweeperIdle
  /\ IpIdle
  /\ MwIdle

NextReset ==
  \/ /\ \/ \E k \in keys : Allow(k, 1)
        \/ \E k \in keys : Reset(k)
        \/ Tick
     /\ UNCHANGED <<bucketVars, concVars, mwVars, redisVars, ipVars, sw>>
  \/ \E k \in keys : RAllow(k, 1)
  \/ \E k \in keys : RReset(k)

SpecReset == InitReset /\ [][NextReset]_vars

\* ------------------------------------------------ RedisConcurrencyStore

\* luaConcAcquire on the counters inf: GET, compare, INCR (the safety TTL
\* does not run out while the clock stands still)
RedisConcScript(inf, k, limit) ==
  IF InflightOf(inf, k) >= limit
  THEN [ok |-> FALSE, inflight |-> inf]
  ELSE [ok |-> TRUE,
        inflight |-> [x \in DOMAIN inf \cup {k} |->
                        IF x = k THEN InflightOf(inf, k) + 1 ELSE inf[x]]]

\* RedisConcurrencyStore.Acquire: an error of the script call is answered
\* with (true, nil)
RedisConcAcquire(inf, k, limit, err) ==
  LET s == RedisConcScript(inf, k, limit)
  IN  [ok       |-> IF err = "none" THEN s.ok ELSE TRUE,
       err      |-> FALSE,
       inflight |-> IF err = "unsent" THEN inf ELSE s.inflight]

\* RedisConcurrencyStore.Release: DECR, then DEL when the counter is <= 0
RedisConcRelease(inf, k, err) ==
  LET n    == InflightOf(inf, k) - 1
      decr == [x \in DOMAIN inf \cup {k} |-> IF x = k THEN n ELSE inf[x]]
      del  == [x \in DOMAIN inf \ {k} |-> inf[x]]
  IN  [err      |-> err # "none",
       inflight |-> IF err = "unsent" THEN inf
                    ELSE IF err = "lost" THEN decr
                    ELSE IF n <= 0 THEN del ELSE decr]

\* ------------------------------------------------------ Limiter.Middleware

\* the deferred Release runs when the handler function returns, not when it panics
AfterReturnNoUnwind(held, panicked) ==
  IF held /\ ~panicked THEN "release" ELSE "done"

\* where a request goes when the handler function is left, by return or by
\* panic: to its deferred Release if it registered one
AfterReturn(held, panicked) == IF held THEN "release" ELSE "done"

\* cost := l.policy.Cost; if cost < 1 { cost = 1 }
\* the policy's Cost handed to the store as it is
MwCostAsGiven == mcfg.cost

MwCost == IF mcfg.cost < 1 THEN 1 ELSE mcfg.cost

\* config.RateLimit.Enabled, the policy's Enabled, ConcurrencyLimit and Cost,
\* the options (a concurrency store, an OnLimit callback that handles the
\* response or declines, a log store: none, the NopLogStore or the
\* DBLogStore) and the kinds of the two stores; "other" is any
\* implementation of the ConcurrencyStore interface
MwConfigs ==
  [global : BOOLEAN, enabled : BOOLEAN, conc : 0..MaxConc, hasConc : BOOLEAN,
   cost : (0 - 1)..MaxCost, onLimit : {"none", "handles", "declines"},
   store : {"memory", "redis"}, cstore : {"memory", "redis", "other"},
   logStore : {"none", "nop", "db"}]

\* the configurations with the in-process stores, no callback and no log store
MwPlain ==
  {c \in MwConfigs : /\ c.global /\ c.enabled /\ c.onLimit = "none"
                     /\ c.store = "memory" /\ c.cstore = "memory"
                     /\ c.logStore = "none"}

\* NewLimiter: the fields are stored as given; there is no error result
NewLimiter(c, p) == [limiter |-> c, policy |-> p]

MwInit(cfgs, ps, ks) ==
  /\ StoreInit(ks, ps, 0)
  /\ mcfg \in {NewLimiter(c, pol).limiter : c \in cfgs}
  /\ inflight = <<>>
  /\ req = [r \in Reqs |-> NoReq]
  /\ BucketIdle
  /\ ConcIdle
  /\ SweeperIdle
  /\ IpIdle
  /\ RedisIdle

MwFrame == UNCHANGED <<pol, storeVars, bucketVars, concVars, mcfg, redisVars, ipVars, sw>>

\* setRateLimitHeaders that leaves X-RateLimit-Remaining as it was
SetHeadersNoRemaining(w, result) ==
  [w EXCEPT !.hdrs = TRUE, !.limit = result.limit, !.reset = result.resetAt]

\* setRateLimitHeaders(w, result)
SetRateLimitHeaders(w, result) ==
  [w EXCEPT !.hdrs = TRUE, !.limit = result.limit,
            !.remaining = result.remaining, !.reset = result.resetAt]

\* what l.logStore.Log(entry) can return in denyResponse: whether it was
\* called, and whether it returned an error.  No log store: not called; the
\* NopLogStore returns nil; the DBLogStore returns the INSERT's error, or
\* "database not available"
LogWrites(c) ==
  IF c.logStore = "none" THEN {[called |-> FALSE, err |-> FALSE]}
  ELSE IF c.logStore = "nop" THEN {[called |-> TRUE, err |-> FALSE]}
  ELSE {[called |-> TRUE, err |-> e] : e \in BOOLEAN}

\* the type l.keyFunc(r) returns with the key: each key comes from one strategy
KeyTypeOf(k) == IF k = "a" THEN "ip" ELSE "user"

\* l.policy.Scope
PolicyScope == "api_default"

\* a LogEntry that names one second whatever the denial says
LogEntryOneSecond(k, result) ==
  [keyType |-> KeyTypeOf(k), scope |-> PolicyScope, retryAfter |-> 1]

\* the LogEntry denyResponse hands to l.logStore.Log
LogEntryOf(k, result) ==
  [keyType |-> KeyTypeOf(k), scope |-> PolicyScope, retryAfter |-> result.retryAfter]

\* denyResponse that leaves the Retry-After header out
DenyResponseNoRetry(w, result, onLimit, logErr) ==
  IF onLimit = "handles" THEN [w EXCEPT !.custom = TRUE]
  ELSE [SetRateLimitHeaders(w, result) EXCEPT !.status = 429,
                                              !.body = result.retryAfter]

\* denyResponse that answers a failed log write with a 500
DenyResponseLogFatal(w, result, onLimit, logErr) ==
  IF logErr THEN [w EXCEPT !.status = 500]
  ELSE IF onLimit = "handles" THEN [w EXCEPT !.custom = TRUE]
  ELSE [SetRateLimitHeaders(w, result) EXCEPT
          !.retrySet = TRUE, !.retry = result.retryAfter, !.status = 429,
          !.body = result.retryAfter]

\* l.denyResponse(w, r, result, ...) after its l.logStore.Log returned logErr
\* (which is logged and dropped): the callback takes the response over, or
\* the headers, Retry-After, status 429 and the body are written
DenyResponse(w, result, onLimit, logErr) ==
  IF onLimit = "handles" THEN [w EXCEPT !.custom = TRUE]
  ELSE [SetRateLimitHeaders(w, result) EXCEPT
          !.retrySet = TRUE, !.retry = result.retryAfter, !.status = 429,
          !.body = result.retryAfter]

\* the kill-switch that looks at the policy's flag only
KillSwitchPolicyOnly(c) == ~c.enabled

\* !config.RateLimit.Enabled || !l.policy.Enabled
KillSwitch(c) == ~c.global \/ ~c.enabled

\* the allowlist loop that goes on after a match
BypassNever(listed) == FALSE

\* the allowlist loop: some rule matches the request
Bypass(listed) == listed

\* a request arrives: the kill-switch, the allowlist, then the key.
\* Requests are numbered in their order of arrival.
MwStart(r) ==
  /\ req[r].pc = "new"
  /\ \A q \in Reqs : q < r => req[q].pc # "new"
  /\ \E k \in keys, listed \in BOOLEAN :
       req' = [req EXCEPT ![r] =
                 IF KillSwitch(mcfg)
                 THEN [@ EXCEPT !.pc = "handler", !.out = "pass", !.calls = @ + 1]
                 ELSE IF Bypass(listed)
                 THEN [@ EXCEPT !.pc = "handler", !.out = "pass", !.calls = @ + 1,
                                !.evals = @ + 1, !.listed = TRUE]
                 ELSE [@ EXCEPT !.key = k, !.evals = @ + 1, !.listed = listed,
                                !.pc = IF mcfg.conc > 0 /\ mcfg.hasConc
                                       THEN "acquire" ELSE "rate"]]
  /\ UNCHANGED inflight
  /\ MwFrame

\* what l.concurrencyStore.Acquire(key, limit) can return, and the store after
Acquires(inf, k, c) ==
  IF c.cstore = "memory"
  THEN {[ok |-> ConcAcquire(inf, k, c.conc).ok, err |-> FALSE,
         inflight |-> ConcAcquire(inf, k, c.conc).inflight]}
  ELSE IF c.cstore = "redis"
  THEN {RedisConcAcquire(inf, k, c.conc, e) : e \in RedisErrors}
  ELSE {[ok |-> ok, err |-> err, inflight |-> inf] : ok \in BOOLEAN, err \in BOOLEAN}

\* what l.concurrencyStore.Release(key) can return, and the store after
Releases(inf, k, c) ==
  IF c.cstore = "memory"
  THEN {[err |-> FALSE, inflight |-> ConcRelease(inf, k)]}
  ELSE IF c.cstore = "redis"
  THEN {RedisConcRelease(inf, k, e) : e \in RedisErrors}
  ELSE {[err |-> err, inflight |-> inf] : err \in BOOLEAN}

\* the check of Acquire's answer that never denies
AcquireOkAlways(a) == TRUE

\* if !ok { deny }: the error, already logged, is not looked at
AcquireOk(a) == a.ok

\* l.concurrencyStore.Acquire(key, limit): denied, or the Release deferred
MwAcquire(r) ==
  /\ req[r].pc = "acquire"
  /\ \E a \in Acquires(inflight, req[r].key, mcfg), lg \in LogWrites(mcfg) :
       /\ inflight' = a.inflight
       /\ req' = [req EXCEPT ![r] =
                    IF AcquireOk(a)
                    THEN [@ EXCEPT !.pc = "rate", !.held = TRUE, !.acq = @ + 1,
                                   !.acqErr = a.err,
                                   !.slot = IF a.ok THEN "got" ELSE "refused"]
                    ELSE [@ EXCEPT !.pc = "done", !.out = "deny_concurrency",
                                   !.acqErr = a.err,
                                   !.slot = IF a.ok THEN "got" ELSE "refused",
                                   !.result = Result(FALSE, mcfg.conc, 0, 1, 0),
                                   !.logs = IF lg.called THEN @ + 1 ELSE @,
                                   !.logErr = lg.err,
                                   !.entry = IF lg.called
                                             THEN LogEntryOf(req[r].key,
                                                    Result(FALSE, mcfg.conc, 0, 1, 0))
                                             ELSE @,
                                   !.w = DenyResponse(@, Result(FALSE, mcfg.conc, 0, 1, 0),
                                                      mcfg.onLimit, lg.err)]]
  /\ MwFrame

\* what l.store.Allow(key, l.policy, cost) can return, and the store after
StoreAllows(es, db, k, c, p, cost, now) ==
  IF c.store = "memory"
  THEN {[entries |-> MemAllow(es, k, p, cost, now, now, ovf).entries, db |-> db,
         result |-> MemAllow(es, k, p, cost, now, now, ovf).result,
         err |-> "none"] : ovf \in Overflows(p)}
  ELSE {[entries |-> es,
         db |-> IF e = "unsent" THEN db ELSE RedisAllow(db, k, p, cost, now, ovf).db,
         result |-> IF e = "none" THEN RedisAllow(db, k, p, cost, now, ovf).result
                    ELSE FailOpen(p),
         err |-> e] : e \in RedisErrors, ovf \in RedisOverflows(p)}

\* result := l.store.Allow(key, l.policy, cost); the headers; 429 or next
MwRate(r) ==
  /\ req[r].pc = "rate"
  /\ \E a \in StoreAllows(entries, rdb, req[r].key, mcfg, pol, MwCost, clock),
        lg \in LogWrites(mcfg) :
       /\ entries' = a.entries
       /\ rdb' = a.db
       /\ req' = [req EXCEPT ![r] =
                    IF a.result.allowed
                    THEN [@ EXCEPT !.pc = "handler", !.out = "served",
                                   !.result = a.result, !.allows = @ + 1,
                                   !.storeErr = a.err # "none", !.calls = @ + 1,
                                   !.w = SetRateLimitHeaders(@, a.result)]
                    ELSE [@ EXCEPT !.pc = AfterReturn(req[r].held, FALSE),
                                   !.out = "deny_rate", !.result = a.result,
                                   !.allows = @ + 1, !.storeErr = a.err # "none",
                                   !.logs = IF lg.called THEN @ + 1 ELSE @,
                                   !.logErr = lg.err,
                                   !.entry = IF lg.called
                                             THEN LogEntryOf(req[r].key, a.result)
                                             ELSE @,
                                   !.w = DenyResponse(SetRateLimitHeaders(@, a.result),
                                                      a.result, mcfg.onLimit, lg.err)]]
  /\ UNCHANGED <<pol, keys, clock, nskew, res, solo, streak, wasReset, win, stop, swp>>
  /\ UNCHANGED <<bucketVars, concVars, mcfg, inflight, rdeny, rres, ipVars, sw>>

\* next.ServeHTTP returns
MwHandlerReturn(r) ==
  /\ req[r].pc = "handler"
  /\ req' = [req EXCEPT ![r].pc = AfterReturn(req[r].held, FALSE)]
  /\ UNCHANGED inflight
  /\ MwFrame

\* next.ServeHTTP panics
MwHandlerPanic(r) ==
  /\ req[r].pc = "handler"
  /\ req' = [req EXCEPT ![r].pc = AfterReturn(req[r].held, TRUE),
                        ![r].out = "panic"]
  /\ UNCHANGED inflight
  /\ MwFrame

\* the deferred l.concurrencyStore.Release(key); its error is logged
MwRelease(r) ==
  /\ req[r].pc = "release"
  /\ \E a \in Releases(inflight, req[r].key, mcfg) :
       /\ inflight' = a.inflight
       /\ req' = [req EXCEPT ![r].pc = "done", ![r].rel = @ + 1,
                             ![r].relErr = a.err]
  /\ MwFrame

NextMw ==
  \E r \in Reqs :
    \/ MwStart(r)
    \/ MwAcquire(r)
    \/ MwRate(r)
    \/ MwHandlerReturn(r)
    \/ MwHandlerPanic(r)
    \/ MwRelease(r)

\* a Limiter with a concurrency limit and a MemoryConcurrencyStore
InitMw ==
  MwInit({c \in MwPlain : c.conc > 0 /\ c.hasConc /\ c.cost = 1},
         {p \in Policies : p.burst = 0 /\ p.window = 1000}, Keys)

SpecMw == InitMw /\ [][NextMw]_vars

\* a Limiter with either flag on or off, whatever else is set
InitMwOff ==
  MwInit({c \in MwConfigs : /\ c.logStore = "none" /\ c.onLimit = "none" /\ c.cost = 1
                            /\ c.store = "memory" /\ c.cstore = "memory"},
         {p \in Policies : p.limit = 1 /\ p.burst = 0 /\ p.window = 1000}, {"a"})

SpecMwOff == InitMwOff /\ [][NextMw]_vars

\* a Limiter on one key, with or without an OnLimit callback and with a
\* concurrency limit of at most one
InitMwRate ==
  MwInit({c \in MwConfigs : /\ c.logStore = "none" /\ c.global /\ c.enabled /\ c.cost = 1
                            /\ c.store = "memory" /\ c.cstore = "memory"
                            /\ c.hasConc /\ c.conc <= 1},
         {p \in Policies : p.burst = 0 /\ p.window = 1000}, {"a"})

SpecMwRate == InitMwRate /\ [][NextMw]_vars

\* NewLimiter called with a policy of Limit 0, then used
InitCtor ==
  MwInit({c \in MwPlain : c.cost = 1 /\ c.hasConc /\ c.conc <= 1},
         {p \in AnyPolicies : p.limit = 0 /\ p.window = 1000}, {"a"})

SpecCtor == InitCtor /\ [][NextMw]_vars

\* a Limiter whose concurrency store can fail: the RedisConcurrencyStore, or
\* any other implementation of the interface
InitMwAcq ==
  MwInit({c \in MwConfigs : /\ c.logStore = "none" /\ c.global /\ c.enabled /\ c.cost = 1
                            /\ c.onLimit = "none" /\ c.store = "memory"
                            /\ c.cstore # "memory" /\ c.hasConc /\ c.conc = 1},
         {p \in Policies : p.burst = 0 /\ p.window = 1000}, {"a"})

SpecMwAcq == InitMwAcq /\ [][NextMw]_vars

\* a Limiter on a RedisStore, with a concurrency limit of at most one
InitMwRedis ==
  MwInit({c \in MwConfigs : /\ c.logStore = "none" /\ c.global /\ c.enabled /\ c.onLimit = "none"
                            /\ c.store = "redis" /\ c.cstore = "memory"
                            /\ c.conc <= 1 /\ c.hasConc /\ c.cost = 1},
         {p \in RedisPolicies : p.window = 1000}, {"a"})

SpecMwRedis == InitMwRedis /\ [][NextMw]_vars

\* a Limiter on one key with any log store, with or without an OnLimit
\* callback and with a concurrency limit of at most one
InitMwLog ==
  MwInit({c \in MwConfigs : /\ c.global /\ c.enabled /\ c.cost = 1
                            /\ c.store = "memory" /\ c.cstore = "memory"
                            /\ c.hasConc /\ c.conc <= 1},
         {p \in Policies : p.limit = 1 /\ p.burst = 0 /\ p.window = 1000}, {"a"})

SpecMwLog == InitMwLog /\ [][NextMw]_vars

\* ------------- MemoryConcurrencyStore called directly, in any order
\* req[1] records the last call: out is the method, key its key, cur and val
\* the key's count before and after, slot what Acquire returned, calls the
\* number of calls so far.

InitMemConc ==
  /\ MwInit({c \in MwPlain : c.conc >= 1 /\ c.hasConc /\ c.cost = 1},
            {p \in Policies : p.limit = 1 /\ p.burst = 0 /\ p.window = 1000}, Keys)

\* m.Acquire(k, L)
McAcquire(k) ==
  LET a == ConcAcquire(inflight, k, mcfg.conc)
  IN  /\ req[1].calls < MaxConcCalls
      /\ inflight' = a.inflight
      /\ req' = [req EXCEPT ![1] =
                   [NoReq EXCEPT !.pc = "done", !.out = "acquire", !.key = k,
                                 !.slot = IF a.ok THEN "got" ELSE "refused",
                                 !.cur = InflightOf(inflight, k),
                                 !.val = InflightOf(a.inflight, k),
                                 !.calls = req[1].calls + 1]]
      /\ MwFrame

\* m.Release(k), whether or not an Acquire came before
McRelease(k) ==
  /\ req[1].calls < MaxConcCalls
  /\ inflight' = ConcRelease(inflight, k)
  /\ req' = [req EXCEPT ![1] =
               [NoReq EXCEPT !.pc = "done", !.out = "release", !.key = k,
                             !.cur = InflightOf(inflight, k),
                             !.val = InflightOf(inflight', k),
                             !.calls = req[1].calls + 1]]
  /\ MwFrame

NextMemConc ==
  \/ \E k \in keys : McAcquire(k)
  \/ \E k \in keys : McRelease(k)

SpecMemConc == InitMemConc /\ [][NextMemConc]_vars

\* ------------- MemoryStore beside a store whose entries are never evicted
\* solo[k] gets every Allow the store gets and no sweep: it is the entry of
\* k as it would be had it been kept and refilled.

\* a pass of MemoryStore.cleanup; the store beside it keeps its entries
EvictSweep ==
  \E ts \in {clock, Max(0, clock - StepMs)} :
    /\ swp = "running"
    /\ entries' = MemSweep(entries, ts)
    /\ streak' = [k \in Keys |-> IF entries'[k] = NoEntry THEN 0 ELSE streak[k]]
    /\ res' = [NoOp EXCEPT !.kind = "sweep", !.now = ts]
    /\ UNCHANGED <<pol, keys, clock, nskew, solo, wasReset, win, stop, swp>>

\* one key, every policy, the clock still during a call
InitEvict ==
  StoreInit({"a"}, Policies, MaxSkews) /\ BucketIdle /\ ConcIdle /\ MwIdle /\ RedisIdle
  /\ IpIdle /\ SweeperIdle

NextEvict ==
  /\ \/ \E k \in keys, c \in Costs : Allow(k, c)
     \/ EvictSweep
     \/ Tick
  /\ UNCHANGED <<bucketVars, concVars, mwVars, redisVars, ipVars, sw>>

SpecEvict == InitEvict /\ [][NextEvict]_vars

\* ------------- one MemoryStore shared by limiters with different policies
\* pol is the policy of the latest Allow; the limiters build the same keys

\* store.Allow(k, p, cost) by a limiter whose policy is p
AllowWith(k, p, cost) ==
  /\ LET fresh == entries[k] = NoEntry
         r == MemAllow(entries, k, p, cost, clock, clock, "max")
     IN  /\ entries' = r.entries
         /\ pol' = p
         /\ res' = [NoOp EXCEPT !.kind = "allow", !.key = k, !.cost = cost,
                                !.now = clock, !.out = r.result, !.fresh = fresh]
  /\ UNCHANGED <<keys, clock, nskew, solo, streak, wasReset, win, stop, swp>>

\* one key; the first limiter to call has any of the policies
InitShared ==
  StoreInit({"a"}, Policies, MaxSkews) /\ BucketIdle /\ ConcIdle /\ MwIdle /\ RedisIdle
  /\ IpIdle /\ SweeperIdle

NextShared ==
  /\ \/ \E k \in keys, p \in Policies : AllowWith(k, p, 1)
     \/ \E k \in keys : Reset(k)
     \/ Sweep
     \/ Tick
  /\ UNCHANGED <<bucketVars, concVars, mwVars, redisVars, ipVars, sw>>

SpecShared == InitShared /\ [][NextShared]_vars

\* ------------- Limiter.Middleware with MemoryStore.Allow's mutex in view
\* mu is the request whose store.Allow holds s.mu (0: nobody); a request at
\* "allow" is inside MemoryStore.Allow, past s.mu.Lock().

LockFrame ==
  UNCHANGED <<pol, keys, clock, nskew, res, solo, streak, wasReset, win, stop, swp,
              bucketVars, cpc, cent, heap, ce, cok, mcfg, inflight, redisVars,
              ipVars, sw>>

\* l.store.Allow is entered: s.mu.Lock()
StoreLock(r) ==
  /\ req[r].pc = "rate"
  /\ mu = 0
  /\ mu' = r
  /\ req' = [req EXCEPT ![r].pc = "allow"]
  /\ UNCHANGED entries
  /\ LockFrame

\* a store.Allow whose mutex stays locked when it returns
StoreAllowKeepLock(r) ==
  /\ req[r].pc = "allow"
  /\ mu = r
  /\ LET a == MemAllow(entries, req[r].key, pol, MwCost, clock, clock, "max")
     IN  /\ entries' = a.entries
         /\ req' = [req EXCEPT ![r] =
                      [@ EXCEPT !.pc = IF a.result.allowed THEN "handler"
                                       ELSE AfterReturn(req[r].held, FALSE),
                                !.out = IF a.result.allowed THEN "served" ELSE "deny_rate",
                                !.result = a.result, !.allows = @ + 1,
                                !.calls = IF a.result.allowed THEN @ + 1 ELSE @,
                                !.w = IF a.result.allowed
                                      THEN SetRateLimitHeaders(@, a.result)
                                      ELSE DenyResponse(SetRateLimitHeaders(@, a.result),
                                                        a.result, mcfg.onLimit, FALSE)]]
  /\ UNCHANGED mu
  /\ LockFrame

\* the body of MemoryStore.Allow and its return, where the deferred
\* s.mu.Unlock() runs; then the headers, and the 429 or next.ServeHTTP
StoreAllow(r) ==
  /\ req[r].pc = "allow"
  /\ mu = r
  /\ LET a == MemAllow(entries, req[r].key, pol, MwCost, clock, clock, "max")
     IN  /\ entries' = a.entries
         /\ req' = [req EXCEPT ![r] =
                      [@ EXCEPT !.pc = IF a.result.allowed THEN "handler"
                                       ELSE AfterReturn(req[r].held, FALSE),
                                !.out = IF a.result.allowed THEN "served" ELSE "deny_rate",
                                !.result = a.result, !.allows = @ + 1,
                                !.calls = IF a.result.allowed THEN @ + 1 ELSE @,
                                !.w = IF a.result.allowed
                                      THEN SetRateLimitHeaders(@, a.result)
                                      ELSE DenyResponse(SetRateLimitHeaders(@, a.result),
                                                        a.result, mcfg.onLimit, FALSE)]]
  /\ mu' = 0
  /\ LockFrame

\* a Limiter with a concurrency limit on a MemoryStore shared by the requests
InitMwLock ==
  MwInit({c \in MwPlain : c.conc > 0 /\ c.hasConc /\ c.cost = 1},
         {p \in Policies : p.burst = 0 /\ p.window = 1000}, Keys)

NextMwLock ==
  \E r \in Reqs :
    \/ MwStart(r)
    \/ MwAcquire(r)
    \/ StoreLock(r)
    \/ StoreAllow(r)
    \/ MwHandlerReturn(r)
    \/ MwRelease(r)

SpecMwLock == InitMwLock /\ [][NextMwLock]_vars

\* a Limiter with a log store, switched on or off, with or without an
\* OnLimit callback, on two keys
InitMwSink ==
  MwInit({c \in MwConfigs : /\ c.logStore # "none" /\ c.cost = 1
                            /\ c.store = "memory" /\ c.cstore = "memory"
                            /\ c.hasConc /\ c.conc = 1},
         {p \in Policies : p.limit = 1 /\ p.burst = 0}, Keys)

SpecMwSink == InitMwSink /\ [][NextMw]_vars

\* a Limiter whose policy has any Cost, also 0 and negative, while time passes
InitMwCost ==
  MwInit({c \in MwConfigs : /\ c.global /\ c.enabled /\ c.onLimit = "none"
                            /\ c.logStore = "none" /\ c.store = "memory"
                            /\ c.cstore = "memory" /\ ~c.hasConc /\ c.conc = 0},
         {p \in Policies : p.limit = 1 /\ p.window = 1000}, {"a"})

\* no concurrency store: Acquire and Release are not reached
NextMwCost ==
  \/ \E r \in Reqs :
       \/ MwStart(r)
       \/ MwRate(r)
       \/ MwHandlerReturn(r)
  \/ Tick /\ UNCHANGED <<bucketVars, concVars, mwVars, redisVars, ipVars, sw>>

SpecMwCost == InitMwCost /\ [][NextMwCost]_vars

\* the requests of key k whose downstream handler is running
InHandler(k) == {r \in Reqs : req[r].pc = "handler" /\ req[r].key = k}

\* ------------------- Bucket.Allow and luaTokenBucket with any timestamps

\* RedisStore.Allow by an instance whose time.Now() is t (the instances'
\* clocks differ and a clock can be set back), no Redis error
RAllowAt(k, cost, t) ==
  LET e == RedisGet(rdb, k, t)
      r == RedisAllow(rdb, k, pol, cost, t, "max")
  IN  /\ rdb' = r.db
      /\ rres' = [NoRedisOp EXCEPT
                    !.kind = "allow", !.key = k, !.cost = cost, !.now = t,
                    !.out = r.result, !.retryMs = r.lua.retryMs,
                    !.tokens = r.lua.tokens, !.rate = Rate4(pol),
                    !.wasAbsent = e = NoEntry,
                    !.before = IF e = NoEntry THEN -1 ELSE e.lastMs,
                    !.had = IF e = NoEntry THEN 0 ELSE e.tokens]
      /\ UNCHANGED <<pol, storeVars, bucketVars, concVars, mwVars, rdeny, ipVars, sw>>

\* a Bucket on its own, or a RedisStore with no Bucket in the process
InitRefill ==
  /\ pol \in {p \in Policies : p.burst = 0 /\ p.window = 1000}
  /\ \/ \E t \in BucketTimes : bkt = NewBucket(pol, t)
     \/ bkt = NoEntry
  /\ bres = NoCall
  /\ StoreIdle
  /\ ConcIdle
  /\ SweeperIdle
  /\ IpIdle
  /\ MwIdle
  /\ RedisIdle

NextRefill ==
  \/ \E c \in Costs, t \in BucketTimes : bkt # NoEntry /\ BAllow(c, t)
  \/ \E c \in Costs, t \in BucketTimes : bkt = NoEntry /\ RAllowAt("a", c, t)

SpecRefill == InitRefill /\ [][NextRefill]_vars

\* --------------- RedisConcurrencyStore, command by command, by concurrent
\* --------------- requests (no Redis errors, the safety TTL does not run out)

\* DECR key: a missing key counts as 0
RedisDecr(inf, k) ==
  [x \in DOMAIN inf \cup {k} |-> IF x = k THEN InflightOf(inf, k) - 1 ELSE inf[x]]

\* DEL key
RedisConcDel(inf, k) == [x \in DOMAIN inf \ {k} |-> inf[x]]

\* a limiter with a concurrency limit and a RedisConcurrencyStore
InitRConc ==
  MwInit({c \in MwConfigs : /\ c.global /\ c.enabled /\ c.cost = 1
                            /\ c.onLimit = "none" /\ c.logStore = "none"
                            /\ c.store = "memory" /\ c.cstore = "redis"
                            /\ c.hasConc /\ c.conc >= 1},
         {p \in Policies : p.limit = 1 /\ p.burst = 0 /\ p.window = 1000}, {"a"})

\* Acquire(key, limit): luaConcAcquire runs as one command
RcAcquire(r) ==
  /\ req[r].pc = "new"
  /\ \E k \in keys :
       LET s == RedisConcScript(inflight, k, mcfg.conc)
       IN  /\ inflight' = s.inflight
           /\ req' = [req EXCEPT ![r] =
                        [@ EXCEPT !.key = k, !.cur = InflightOf(inflight, k),
                                  !.val = InflightOf(s.inflight, k),
                                  !.slot = IF s.ok THEN "got" ELSE "refused",
                                  !.held = s.ok,
                                  !.acq = IF s.ok THEN 1 ELSE 0,
                                  !.pc = IF s.ok THEN "handler" ELSE "done"]]
  /\ MwFrame

\* Release(key), first command: res := DECR key
RcDecr(r) ==
  /\ req[r].pc = "handler"
  /\ inflight' = RedisDecr(inflight, req[r].key)
  /\ req' = [req EXCEPT ![r] =
               [@ EXCEPT !.held = FALSE, !.rel = 1,
                         !.val = InflightOf(RedisDecr(inflight, req[r].key), req[r].key),
                         !.pc = IF InflightOf(RedisDecr(inflight, req[r].key), req[r].key) <= 0
                                THEN "del" ELSE "done"]]
  /\ MwFrame

\* Release(key), second command: if res <= 0 { DEL key }
RcDel(r) ==
  /\ req[r].pc = "del"
  /\ inflight' = RedisConcDel(inflight, req[r].key)
  /\ req' = [req EXCEPT ![r].pc = "done"]
  /\ MwFrame

\* the goroutine serves another request
RcAgain(r) ==
  /\ req[r].pc = "done"
  /\ req' = [req EXCEPT ![r] = NoReq]
  /\ UNCHANGED inflight
  /\ MwFrame

NextRConc ==
  \E r \in Reqs :
    \/ RcAcquire(r)
    \/ RcDecr(r)
    \/ RcDel(r)
    \/ RcAgain(r)

SpecRConc == InitRConc /\ [][NextRConc]_vars

\* Acquire(key, limit) when the script call fails before Redis runs it: the
\* error is answered with (true, nil) and the middleware defers the Release
RcAcquireFailed(r) ==
  /\ req[r].pc = "new"
  /\ \E k \in keys :
       req' = [req EXCEPT ![r] =
                 [@ EXCEPT !.key = k, !.cur = InflightOf(inflight, k),
                           !.val = InflightOf(inflight, k),
                           !.slot = "got", !.held = TRUE, !.acq = 1,
                           !.pc = "handler"]]
  /\ UNCHANGED inflight
  /\ MwFrame

\* Release(key) with nothing between its DECR and its DEL
RcRelease(r) ==
  /\ req[r].pc = "handler"
  /\ inflight' = RedisConcRelease(inflight, req[r].key, "none").inflight
  /\ req' = [req EXCEPT ![r] = [@ EXCEPT !.held = FALSE, !.rel = 1, !.pc = "done"]]
  /\ MwFrame

NextRConcErr ==
  \E r \in Reqs :
    \/ RcAcquire(r)
    \/ RcAcquireFailed(r)
    \/ RcRelease(r)
    \/ RcAgain(r)

\* the same store when Redis can be out of reach at an Acquire and no
\* command of another request comes between the two commands of a Release
SpecRConcErr == InitRConc /\ [][NextRConcErr]_vars

\* the requests that hold a slot of key k: acquired and not yet released
Holders(k) == {r \in Reqs : req[r].key = k /\ req[r].held}

\* ------------------------------------------------------ client IP resolution
\* A string that stands where an IP is expected is kept as what the code
\* can tell of it: the address it parses to (ip), its spelling ("plain":
\* canonical; "mapped": IPv4-mapped IPv6 such as ::ffff:10.0.0.2; "bad":
\* nothing net.ParseIP accepts; "empty": no characters but spaces) and
\* whether it has surrounding whitespace (pad).

ProxyA == "10.0.0.2"

ProxyB == "10.0.0.7"

ClientA == "203.0.113.9"

Plain(a) == [ip |-> a, form |-> "plain", pad |-> FALSE]

Mapped(a) == [ip |-> a, form |-> "mapped", pad |-> FALSE]

Padded(t) == [t EXCEPT !.pad = TRUE]

BadText == [ip |-> "unknown", form |-> "bad", pad |-> FALSE]

\* the string ""
EmptyText == [ip |-> "", form |-> "empty", pad |-> FALSE]

\* the strings a header or an X-Forwarded-For piece may be
Texts ==
  {Plain(ProxyA), Plain(ProxyB), Plain(ClientA), Mapped(ProxyA),
   Padded(Plain(ClientA)), BadText, EmptyText, Padded(EmptyText)}

\* r.RemoteAddr as the server sets it: host:port, or a bare host
PeerAddrs ==
  [host : {Plain(ProxyA), Plain(ProxyB), Plain(ClientA), Mapped(ProxyB)},
   port : BOOLEAN]

\* the X-Real-IP header; "" when the header is absent
RealIPs == {EmptyText, Padded(EmptyText), Plain(ClientA), Padded(Plain(ClientA)),
            Mapped(ProxyA)}

\* the X-Forwarded-For header as its comma-separated pieces; <<>> is the
\* string "" (header absent), which a single empty piece would spell too
XffHeaders ==
  (UNION {[1..n -> Texts] : n \in 0..MaxXff}) \ {<<EmptyText>>}

\* config.RateLimit.TrustedProxies: plain IPs, CIDRs (by the addresses they
\* contain) and entries that do not parse
TrustedLists ==
  {<<>>,
   <<[kind |-> "ip", ip |-> ProxyB]>>,
   <<[kind |-> "bad"], [kind |-> "cidr", net |-> {ProxyA, ProxyB}]>>}

\* strings.TrimSpace
TrimSpace(t) == [t EXCEPT !.pad = FALSE]

\* net.ParseIP: the address, or "" (nil) for a string that is no IP, as one
\* with whitespace around it is
ParseIP(t) == IF t.pad \/ t.form \in {"bad", "empty"} THEN "" ELSE t.ip

\* extractIP: the host of host:port, or the address itself
ExtractIP(addr) == addr.host

\* normalizeIP: trim, parse and re-serialise; a string that does not parse
\* is returned trimmed
NormalizeIP(raw) ==
  IF ParseIP(TrimSpace(raw)) = "" THEN TrimSpace(raw)
  ELSE Plain(ParseIP(TrimSpace(raw)))

\* isTrusted that trusts every peer
IsTrustedAlways(t, trusted) == TRUE

\* isTrusted(ip, trusted)
IsTrusted(t, trusted) ==
  /\ ParseIP(t) # ""
  /\ \E i \in 1..Len(trusted) :
       \/ trusted[i].kind = "cidr" /\ ParseIP(t) \in trusted[i].net
       \/ trusted[i].kind = "ip" /\ trusted[i].ip = ParseIP(t)

NotFound == [found |-> FALSE]

RECURSIVE XffWalkLeft(_, _, _)
\* the walk of X-Forwarded-For from left to right
XffWalkLeft(parts, i, trusted) ==
  IF i < 1 \/ i > Len(parts) THEN NotFound
  ELSE LET j  == Len(parts) + 1 - i
           ip == TrimSpace(parts[j])
       IN  IF ip = EmptyText THEN XffWalkLeft(parts, i - 1, trusted)
           ELSE IF ~IsTrusted(ip, trusted)
           THEN [found |-> TRUE, ip |-> NormalizeIP(ip)]
           ELSE XffWalkLeft(parts, i - 1, trusted)

RECURSIVE XffWalk(_, _, _)
\* for i := len(parts) - 1; i >= 0; i-- (here from i down to 1): empty pieces
\* are skipped, the first untrusted one is returned
XffWalk(parts, i, trusted) ==
  IF i < 1 THEN NotFound
  ELSE LET ip == TrimSpace(parts[i])
       IN  IF ip = EmptyText THEN XffWalk(parts, i - 1, trusted)
           ELSE IF ~IsTrusted(ip, trusted)
           THEN [found |-> TRUE, ip |-> NormalizeIP(ip)]
           ELSE XffWalk(parts, i - 1, trusted)

\* ClientIP(r) for RemoteAddr addr and the headers real and xff
ClientIP(addr, real, xff, trusted) ==
  LET peerIP == ExtractIP(addr)
      walk   == XffWalk(xff, Len(xff), trusted)
  IN  IF Len(trusted) = 0 \/ ~IsTrusted(peerIP, trusted) THEN NormalizeIP(peerIP)
      ELSE IF real # EmptyText THEN NormalizeIP(TrimSpace(real))
      ELSE IF xff # <<>> /\ walk.found THEN walk.ip
      ELSE IF xff # <<>> /\ TrimSpace(xff[1]) # EmptyText
      THEN NormalizeIP(TrimSpace(xff[1]))
      ELSE NormalizeIP(peerIP)

\* KeyByIP: "ip:" + ClientIP(r)
KeyByIP(addr, real, xff, trusted) ==
  [tag |-> "ip", ip |-> ClientIP(addr, real, xff, trusted)]

InitIP ==
  /\ ipcfg \in TrustedLists
  /\ ipq = NoIpReq
  /\ ipres = NoIpReq
  /\ pol \in {p \in Policies : p.limit = 1 /\ p.burst = 0 /\ p.window = 1000}
  /\ StoreIdle
  /\ BucketIdle
  /\ ConcIdle
  /\ SweeperIdle
  /\ MwIdle
  /\ RedisIdle

\* a request arrives and its client IP and key are computed
Resolve(addr, real, xff) ==
  /\ ipq = NoIpReq
  /\ ipq' = [addr |-> addr, real |-> real, xff |-> xff]
  /\ ipres' = [ip   |-> ClientIP(addr, real, xff, ipcfg),
               key  |-> KeyByIP(addr, real, xff, ipcfg),
               prev |-> NoIpReq]
  /\ UNCHANGED <<pol, storeVars, bucketVars, concVars, mwVars, redisVars, ipcfg, sw>>

\* the same peer sends the request again without the two headers; prev is
\* the request before and what it resolved to
Resend ==
  /\ ipq # NoIpReq
  /\ ipres.prev = NoIpReq
  /\ ipq' = [addr |-> ipq.addr, real |-> EmptyText, xff |-> <<>>]
  /\ ipres' = [ip   |-> ClientIP(ipq.addr, EmptyText, <<>>, ipcfg),
               key  |-> KeyByIP(ipq.addr, EmptyText, <<>>, ipcfg),
               prev |-> [ip |-> ipres.ip, key |-> ipres.key,
                         real |-> ipq.real, xff |-> ipq.xff]]
  /\ UNCHANGED <<pol, storeVars, bucketVars, concVars, mwVars, redisVars, ipcfg, sw>>

NextIP ==
  \/ /\ ipq = NoIpReq
     /\ \E addr \in PeerAddrs, real \in RealIPs, xff \in XffHeaders :
          Resolve(addr, real, xff)
  \/ Resend

SpecIP == InitIP /\ [][NextIP]_vars

\* ------------------------------------------------ KeyByIPAndIdentifier
\* A form or query value is kept as what the code can tell of it: its
\* letters in lower case (name), whether it has upper-case letters (upper)
\* and whether it has surrounding whitespace (pad).

\* the string "" as a form or query value
NoValue == [name |-> "", upper |-> FALSE, pad |-> FALSE]

\* the values of the identifier field: "Alice@example.com",
\* "alice@example.com ", "bob@example.com", " " and ""
FieldValues ==
  {[name |-> "alice@example.com", upper |-> TRUE, pad |-> FALSE],
   [name |-> "alice@example.com", upper |-> FALSE, pad |-> TRUE],
   [name |-> "bob@example.com", upper |-> FALSE, pad |-> FALSE],
   [name |-> "", upper |-> FALSE, pad |-> TRUE],
   NoValue}

QueryValues ==
  {[name |-> "bob@example.com", upper |-> TRUE, pad |-> TRUE], NoValue}

Methods == {"GET", "POST", "PUT"}

\* strings.ToLower
ToLower(v) == [v EXCEPT !.upper = FALSE]

\* r.FormValue(field) after r.ParseForm(): the body's value comes before the
\* query string's
FormValue(body, query) == IF body # NoValue THEN body ELSE query

\* extractIdentifier that does not lower-case the value
ExtractIdentifierAsIs(method, body, query) ==
  IF method \in {"POST", "PUT"} /\ FormValue(body, query) # NoValue
  THEN TrimSpace(FormValue(body, query))
  ELSE IF query # NoValue THEN TrimSpace(query)
  ELSE NoValue

\* extractIdentifier(r, field)
ExtractIdentifier(method, body, query) ==
  IF method \in {"POST", "PUT"} /\ FormValue(body, query) # NoValue
  THEN ToLower(TrimSpace(FormValue(body, query)))
  ELSE IF query # NoValue THEN ToLower(TrimSpace(query))
  ELSE NoValue

\* hashValue: the first 16 hex digits of the SHA-256, taken to be different
\* for different values
HashValue(v) == [sha256 |-> v]

\* KeyByIPAndIdentifier(field): "ipident:" + ip + ":" + hash
KeyByIPAndIdentifier(addr, method, body, query, trusted) ==
  [tag  |-> "ipident",
   ip   |-> ClientIP(addr, EmptyText, <<>>, trusted),
   hash |-> HashValue(ExtractIdentifier(method, body, query))]

\* the peers of the requests
IdentPeers == {[host |-> Plain(ClientA), port |-> TRUE], [host |-> Plain(ProxyB), port |-> TRUE]}

\* every key the requests can have (the mutated key functions' included)
IdentKeys ==
  {[tag |-> "ipident", ip |-> a.host, hash |-> HashValue(v)] :
     a \in IdentPeers,
     v \in {TrimSpace(x) : x \in FieldValues \cup QueryValues}
           \cup {ToLower(TrimSpace(x)) : x \in FieldValues \cup QueryValues}}

\* who a request is about, as the spec has it: the client IP and the value
\* of the field (the form's on POST and PUT if there is one, else the
\* query's), trimmed and lower-cased
Identity(addr, method, body, query) ==
  LET v == IF method \in {"POST", "PUT"} /\ FormValue(body, query) # NoValue
           THEN FormValue(body, query) ELSE query
  IN  [ip |-> addr.host.ip, name |-> v.name]

Identities == [ip : {ClientA, ProxyB}, name : {"alice@example.com", "bob@example.com", ""}]

NotSeen == [admitted |-> 0, denied |-> FALSE, key |-> NoIpReq, raws |-> {}]

\* a limiter keyed by KeyByIPAndIdentifier on a new MemoryStore, no trusted
\* proxies configured
InitIdent ==
  /\ ipcfg = <<>>
  /\ ipq = NoIpReq
  /\ ipres = [n |-> 0, seen |-> [d \in Identities |-> NotSeen]]
  /\ pol \in {p \in Policies : p.burst = 0 /\ p.window = 1000}
  /\ keys = {}
  /\ clock = 0
  /\ nskew = 0
  /\ entries = [k \in IdentKeys |-> NoEntry]
  /\ res = NoOp
  /\ solo = [k \in Keys |-> [x \in {k} |-> NoEntry]]
  /\ streak = [k \in Keys |-> 0]
  /\ wasReset = [k \in Keys |-> "none"]
  /\ win = NoWindow
  /\ stop = "open"
  /\ swp = "running"
  /\ BucketIdle
  /\ ConcIdle
  /\ SweeperIdle
  /\ MwIdle
  /\ RedisIdle

\* a request goes through the limiter: key, keyType := l.keyFunc(r), then
\* l.store.Allow(key, l.policy, 1).  seen keeps, per identity, the admitted
\* and denied requests so far, their key and the raw values they carried.
IdentRequest(addr, method, body, query) ==
  /\ ipres.n < MaxIdentReqs
  /\ LET k == KeyByIPAndIdentifier(addr, method, body, query, ipcfg)
         a == MemAllow(entries, k, pol, 1, clock, clock, "max")
         d == Identity(addr, method, body, query)
         v == IF method \in {"POST", "PUT"} /\ FormValue(body, query) # NoValue
              THEN FormValue(body, query) ELSE query
     IN  /\ entries' = a.entries
         /\ ipq' = [addr |-> addr, method |-> method, body |-> body, query |-> query]
         /\ ipres' = [n      |-> ipres.n + 1,
                      key    |-> k,
                      out    |-> a.result,
                      id     |-> d,
                      before |-> ipres.seen[d],
                      others |-> {ipres.seen[x].key : x \in Identities \ {d}},
                      seen   |-> [ipres.seen EXCEPT ![d] =
                                    [admitted |-> IF a.result.allowed
                                                  THEN @.admitted + 1 ELSE @.admitted,
                                     denied   |-> @.denied \/ ~a.result.allowed,
                                     key      |-> k,
                                     raws     |-> @.raws \cup {v}]]]
  /\ UNCHANGED <<pol, keys, clock, nskew, res, solo, streak, wasReset, win, stop, swp>>
  /\ UNCHANGED <<bucketVars, concVars, mwVars, redisVars, ipcfg, sw>>

\* a GET carries no form body
NextIdent ==
  \E addr \in IdentPeers, method \in Methods, body \in FieldValues, query \in QueryValues :
    /\ method = "GET" => body = NoValue
    /\ IdentRequest(addr, method, body, query)

SpecIdent == InitIdent /\ [][NextIdent]_vars

\* ------------------------------------------- KeyByTokenElseUserElseIP
\* The Authorization header is kept as its first word (scheme) and what
\* follows the space after it (rest: the token's characters and whether
\* blanks surround them); the session as what session.FromContext,
\* auth.IsAuthenticated and sess.Get("user_id") answer for it.

\* r.Header.Get("Authorization") of a request without the header: ""
NoHeader == [scheme |-> "", rest |-> [tok |-> "", pad |-> FALSE]]

AuthHeaders ==
  {NoHeader} \cup
  [scheme : {"Bearer", "bearer", "Basic"},
   rest : [tok : {"", "abc", "xyz"}, pad : BOOLEAN]]

\* session.FromContext returned nil
NilSession == [nil |-> TRUE, authed |-> FALSE, uid |-> "absent"]

\* uid: "absent" when Get answers ok = false, "nil" when it answers a nil value
Sessions ==
  {NilSession} \cup
  [nil : {FALSE}, authed : BOOLEAN, uid : {"absent", "nil", "u1", "u2"}]

KeyTypeToken == "token"

KeyTypeUser == "user"

KeyTypeIP == "ip"

\* extractBearerToken: the header is longer than "Bearer " and starts with
\* it in any letter case; the rest is trimmed
ExtractBearerToken(h) ==
  IF h = NoHeader THEN ""
  ELSE IF /\ (h.rest.tok # "" \/ h.rest.pad)
          /\ h.scheme \in {"Bearer", "bearer"}
  THEN TrimSpace(h.rest).tok
  ELSE ""

\* a key function that looks at the session before the token
KeyByUserElseTokenElseIP(h, sess, addr, trusted) ==
  IF ~sess.nil /\ sess.authed /\ sess.uid \notin {"absent", "nil"}
  THEN [key |-> [tag |-> "user", uid |-> sess.uid], keyType |-> KeyTypeUser]
  ELSE IF ExtractBearerToken(h) # ""
  THEN [key |-> [tag |-> "token", hash |-> HashValue(ExtractBearerToken(h))],
        keyType |-> KeyTypeToken]
  ELSE [key |-> KeyByIP(addr, EmptyText, <<>>, trusted), keyType |-> KeyTypeIP]

\* KeyByTokenElseUserElseIP on a request without X-Real-IP and X-Forwarded-For
KeyByTokenElseUserElseIP(h, sess, addr, trusted) ==
  IF ExtractBearerToken(h) # ""
  THEN [key |-> [tag |-> "token", hash |-> HashValue(ExtractBearerToken(h))],
        keyType |-> KeyTypeToken]
  ELSE IF ~sess.nil /\ sess.authed /\ sess.uid \notin {"absent", "nil"}
  THEN [key |-> [tag |-> "user", uid |-> sess.uid], keyType |-> KeyTypeUser]
  ELSE [key |-> KeyByIP(addr, EmptyText, <<>>, trusted), keyType |-> KeyTypeIP]

InitKeyFn ==
  /\ pol \in {p \in Policies : p.limit = 1 /\ p.burst = 0 /\ p.window = 1000}
  /\ StoreIdle
  /\ BucketIdle
  /\ ConcIdle
  /\ SweeperIdle
  /\ IpIdle
  /\ MwIdle
  /\ RedisIdle

\* a request arrives and the key function is applied to it
KeyRequest(h, sess, addr) ==
  /\ ipq = NoIpReq
  /\ ipq' = [auth |-> h, sess |-> sess, addr |-> addr]
  /\ ipres' = KeyByTokenElseUserElseIP(h, sess, addr, ipcfg)
  /\ UNCHANGED <<pol, storeVars, bucketVars, concVars, mwVars, redisVars, ipcfg, sw>>

NextKeyFn == \E h \in AuthHeaders, sess \in Sessions, addr \in IdentPeers : KeyRequest(h, sess, addr)

SpecKeyFn == InitKeyFn /\ [][NextKeyFn]_vars

\* ------------------------------------------------------------- the claims

\* C1: on a freshly created bucket, cost-1 allow calls with no advance of
\* time are admitted for exactly the first limit + burst calls and denied
\* from then on (res.nth counts the calls since the bucket was created).
C1_ExactlyMaxAdmitted ==
  (res.kind = "allow" /\ res.nth >= 1)
    => (res.out.allowed <=> res.nth <= MaxTokens(pol))

C1_Witness ==
  /\ res.kind = "allow"
  /\ pol.burst > 0
  /\ res.nth = MaxTokens(pol) + 1
  /\ ~res.out.allowed

\* C5: for one key under one policy and cost 1 (or more), the calls admitted
\* in an interval of D seconds number at most floor(D * refill_rate) +
\* (limit + burst), in every sequence of allow calls and sweeper runs.
C5_RateBound ==
  (win.key # "" /\ clock > win.from)
    => win.count <= FloorDiv((clock - win.from) * pol.limit, pol.window)
                    + MaxTokens(pol)

\* C7: the buckets of distinct keys are independent: a key's stored entry is
\* what that key's own calls alone produce, and every allow returns what it
\* returns in a store that never saw another key.
C7_Independent ==
  /\ \A k \in Keys : solo[k][k] = entries[k]
  /\ res.kind = "allow" => res.out = res.soloOut

C7_Witness ==
  /\ res.kind = "allow" /\ res.key = "b" /\ res.out.allowed
  /\ wasReset["a"] # "none"
  /\ entries["b"] # NoEntry /\ entries["b"].bucket.tokens = 0

\* C8: whatever a Reset removed (nothing, a partly used or an exhausted
\* bucket), the allow of cost 1 that follows it is admitted with
\* remaining = max_tokens - 1.
C8_ResetThenAllow ==
  (res.kind = "allow" /\ res.afterReset # "none" /\ res.cost = 1)
    => (res.out.allowed /\ res.out.remaining = MaxTokens(pol) - 1)

C8_Witness ==
  /\ res.kind = "allow" /\ res.afterReset = "exhausted" /\ res.cost = 1
  /\ res.out.allowed

\* C6: after any sequence of Bucket.Allow calls, with any cost >= 1 and any
\* timestamps (also ones that go backwards), 0 <= tokens <= max_tokens.
C6_TokensInRange == 0 <= bkt.tokens /\ bkt.tokens <= bkt.max

C6_Witness ==
  /\ bres.kind = "allow" /\ bres.allowed /\ bres.cost > 1
  /\ bres.raw > bkt.max
  /\ bres.before > 0

\* C2: MemoryStore.Allow is atomic per key: whenever no call is under way,
\* of the N calls made so far for the new key (cost 1, no time advance)
\* exactly min(N, limit + burst) were admitted, in every interleaving; and a
\* goroutine reads or writes the map and its entries only while it holds
\* the store's mutex.
C2_AtomicPerKey ==
  /\ \A p \in Procs : InSection(p) => mu = p
  /\ Cardinality(Admitted) <= MaxTokens(pol)
  /\ (\A p \in Procs : cpc[p] \in {"idle", "done"})
       => Cardinality(Admitted) = Min(Cardinality(Returned), MaxTokens(pol))

C2_Witness ==
  /\ \A p \in Procs : cpc[p] = "done"
  /\ Cardinality(Admitted) = MaxTokens(pol)
  /\ Cardinality(Admitted) < Cardinality(Returned)

\* C3: with concurrency_limit = N > 0 and a MemoryConcurrencyStore, at no
\* time are more than N downstream handler invocations in progress for the
\* same key.
C3_AtMostNInHandler ==
  (mcfg.conc > 0 /\ mcfg.hasConc)
    => \A k \in Keys : Cardinality(InHandler(k)) <= mcfg.conc

C3_Witness ==
  /\ \E k \in Keys : Cardinality(InHandler(k)) = mcfg.conc /\ mcfg.conc > 1
  /\ \E r \in Reqs : req[r].out = "deny_concurrency"

\* C4: every successful acquire is followed by exactly one release of the
\* same key when the request finishes, on every exit path (return, panic,
\* denial by the rate check); a request whose acquire was denied releases
\* nothing; once all requests have finished every in-flight count is zero.
C4_ReleasePaired ==
  /\ \A r \in Reqs : req[r].rel <= req[r].acq
  /\ \A r \in Reqs : req[r].pc = "done" => req[r].rel = req[r].acq
  /\ \A r \in Reqs : req[r].out = "deny_concurrency" => req[r].rel = 0 /\ req[r].acq = 0
  /\ \A k \in Keys :
       InflightOf(inflight, k) =
         Cardinality({r \in Reqs : req[r].key = k /\ req[r].acq = 1 /\ req[r].rel = 0})
  /\ (\A r \in Reqs : req[r].pc = "done") => inflight = <<>>

C4_Witness ==
  /\ \A r \in Reqs : req[r].pc = "done"
  /\ \E r \in Reqs : req[r].out = "panic" /\ req[r].rel = 1
  /\ \E r \in Reqs : req[r].out = "deny_rate" /\ req[r].rel = 1
  /\ \E r \in Reqs : req[r].out = "deny_concurrency"

\* what C9 asks of a Result o returned for a call of `cost` under policy p:
\* denied: 1 <= retry_after <= ceil(cost / refill_rate); admitted: 0
RetryInBounds(o, cost, p) ==
  IF o.allowed THEN o.retryAfter = 0
  ELSE 1 <= o.retryAfter /\ o.retryAfter <= CeilDiv(cost * p.window, p.limit * 1000)

\* C9: every Result of a store's allow (MemoryStore or RedisStore) has
\* 1 <= retry_after <= ceil(cost / refill_rate) when denied and
\* retry_after = 0 when admitted.
C9_RetryBounds ==
  /\ res.kind = "allow" => RetryInBounds(res.out, res.cost, pol)
  /\ rres.kind = "allow" => RetryInBounds(rres.out, rres.cost, pol)

\* C10: the retry_after of a denial is the ceiling of (cost - tokens) /
\* refill_rate in seconds, at least 1, so that an allow of the same cost
\* (cost <= max_tokens) made retry_after seconds after the denial, the key
\* untouched in between, is admitted.
C10_RetryAdmits == rres.retryDue => rres.out.allowed

\* C12: Close is idempotent: every call of Close on a MemoryStore, the second
\* and later ones included, completes normally (no error, no panic).
C12_CloseIdempotent == res.kind = "close" => res.err = "none"

\* C13: Reset is idempotent in both stores: a Reset that went through leaves
\* its key absent, a further Reset of any absent key changes nothing, and a
\* Reset of an absent key returns no error (the MemoryStore's never does,
\* the RedisStore's only when the DEL itself failed).
C13_ResetIdempotent ==
  /\ res.kind = "reset"
       => /\ res.err = "none"
          /\ entries[res.key] = NoEntry
          /\ MemReset(entries, res.key) = entries
  /\ \A k \in Keys :
       /\ MemReset(MemReset(entries, k), k) = MemReset(entries, k)
       /\ RedisDel(RedisDel(rdb, k), k) = RedisDel(rdb, k)
       /\ rdb[k] = NoEntry => RedisDel(rdb, k) = rdb
  /\ (rres.kind = "reset" /\ rres.err = "none")
       => /\ rdb[rres.key] = NoEntry
          /\ RedisDel(rdb, rres.key) = rdb

C13_Witness ==
  /\ res.kind = "reset"
  /\ wasReset["a"] = "absent"
  /\ rres.kind = "reset"
  /\ rres.err = "none"
  /\ rres.wasAbsent
  /\ clock > 0
\* C11: when the Redis script call fails, RedisStore.Allow returns
\* allowed = true with limit = remaining = max_tokens, and the middleware
\* runs the downstream handler with X-RateLimit-Remaining = max_tokens; the
\* limiter writes no 429 (and no other status) for that request.
C11_FailOpen ==
  \A r \in Reqs :
    req[r].storeErr
      => /\ req[r].result.allowed
         /\ req[r].result.limit = MaxTokens(pol)
         /\ req[r].result.remaining = MaxTokens(pol)
         /\ req[r].calls = 1
         /\ req[r].out \in {"served", "panic"}
         /\ req[r].w.hdrs
         /\ req[r].w.remaining = MaxTokens(pol)
         /\ req[r].w.status = 0
         /\ ~req[r].w.retrySet

C11_Witness ==
  /\ \E r \in Reqs : req[r].out = "deny_rate" /\ req[r].w.status = 429
  /\ \E r \in Reqs : req[r].storeErr /\ req[r].pc = "done" /\ req[r].out = "served"
  /\ rdb["a"] # NoEntry
  /\ rdb["a"].tokens = 0
\* C14: when the global flag or policy.enabled is false, every request goes
\* to the downstream handler exactly once, and the middleware evaluates no
\* allowlist, computes no key, acquires no slot and calls no store.Allow:
\* buckets and in-flight counters stay as they were, whatever the number of
\* requests.
C14_DisabledPassThrough ==
  (~mcfg.global \/ ~mcfg.enabled)
    => /\ \A r \in Reqs :
            /\ req[r].pc # "new" => req[r].calls = 1 /\ req[r].pc \in {"handler", "done"}
            /\ req[r].evals = 0
            /\ req[r].key = ""
            /\ req[r].acq = 0 /\ req[r].rel = 0
            /\ req[r].allows = 0
            /\ req[r].w = NoResp
       /\ entries = [k \in Keys |-> NoEntry]
       /\ inflight = <<>>

C14_Witness ==
  /\ ~mcfg.global
  /\ mcfg.enabled
  /\ mcfg.conc > 0
  /\ mcfg.hasConc
  /\ \A r \in Reqs : req[r].pc = "done" /\ req[r].calls = 1
  /\ \E r \in Reqs : req[r].out = "panic"
\* the requests of key k that store.Allow admitted
Charged(k) ==
  {r \in Reqs : req[r].key = k /\ req[r].allows = 1 /\ req[r].result.allowed}

\* C15: a request matched by an allowlist rule always goes to the downstream
\* handler, whatever the buckets hold, consumes no tokens and acquires no
\* slot: every bucket holds what the non-bypassed requests of its key left
\* (no time passes here), as if the bypassed requests had not happened.
C15_AllowlistBypass ==
  /\ \A r \in Reqs :
       req[r].listed
         => /\ req[r].calls = 1
            /\ req[r].pc \in {"handler", "done"}
            /\ req[r].out \in {"pass", "panic"}
            /\ req[r].acq = 0 /\ req[r].rel = 0
            /\ req[r].allows = 0
            /\ req[r].w = NoResp
  /\ \A k \in Keys :
       IF \E r \in Reqs : req[r].key = k /\ req[r].allows > 0
       THEN /\ entries[k] # NoEntry
            /\ entries[k].bucket.tokens =
                 (MaxTokens(pol) - Cardinality(Charged(k)) * MwCost) * pol.window
       ELSE entries[k] = NoEntry

C15_Witness ==
  /\ \E r \in Reqs : req[r].listed /\ req[r].pc = "done" /\ req[r].out = "pass"
  /\ \E r \in Reqs : req[r].out = "deny_rate"
  /\ \E k \in Keys : entries[k] # NoEntry /\ entries[k].bucket.tokens = 0
\* C16: with concurrency_limit > 0 and a concurrency store attached, a
\* request whose Acquire returns false is denied with Result{limit =
\* concurrency_limit, remaining = 0, retry_after = 1} for reason
\* concurrency: the handler is not run, store.Allow is not called (so the
\* key's bucket is as the other requests left it) and no Release is issued.
C16_ConcurrencyDenial ==
  (mcfg.conc > 0 /\ mcfg.hasConc)
    => /\ \A r \in Reqs :
            req[r].slot = "refused"
              => /\ req[r].out = "deny_concurrency"
                 /\ req[r].pc = "done"
                 /\ req[r].result = Result(FALSE, mcfg.conc, 0, 1, 0)
                 /\ req[r].w.status = 429
                 /\ req[r].w.retrySet /\ req[r].w.retry = 1
                 /\ req[r].w.hdrs /\ req[r].w.limit = mcfg.conc
                 /\ req[r].w.remaining = 0
                 /\ req[r].calls = 0
                 /\ req[r].allows = 0
                 /\ req[r].acq = 0 /\ req[r].rel = 0 /\ ~req[r].held
       /\ \A r \in Reqs : req[r].out = "deny_concurrency" => req[r].slot = "refused"
       /\ \A k \in Keys :
            entries[k] # NoEntry
              => \E r \in Reqs : req[r].key = k /\ req[r].slot = "got" /\ req[r].allows = 1

C16_Witness ==
  \E r \in Reqs :
    /\ req[r].out = "deny_concurrency"
    /\ entries[req[r].key] # NoEntry
    /\ entries[req[r].key].bucket.tokens >= pol.window
    /\ \E q \in Reqs : q # r /\ req[q].key = req[r].key /\ req[q].pc = "handler"
\* the request was denied by the limiter
Denied(r) == req[r].out \in {"deny_rate", "deny_concurrency"}

\* C17: for every request the middleware either runs the downstream handler
\* exactly once or emits a denial, never both; and every denial (reason rate
\* or concurrency) that no OnLimit callback takes over has status 429, a
\* Retry-After header equal to result.retry_after >= 1 and the headers
\* X-RateLimit-Limit, X-RateLimit-Remaining and X-RateLimit-Reset.
C17_HandlerXorDenial ==
  \A r \in Reqs :
    /\ req[r].calls <= 1
    /\ ~(req[r].calls = 1 /\ Denied(r))
    /\ req[r].pc \in {"release", "done"} => (req[r].calls = 1 \/ Denied(r))
    /\ req[r].calls = 1 => req[r].w.status = 0 /\ ~req[r].w.custom
    /\ (Denied(r) /\ ~req[r].w.custom)
         => /\ req[r].w.status = 429
            /\ req[r].w.retrySet
            /\ req[r].w.retry = req[r].result.retryAfter
            /\ req[r].w.retry >= 1
            /\ req[r].w.hdrs
            /\ req[r].w.limit = req[r].result.limit
            /\ req[r].w.remaining = req[r].result.remaining
            /\ req[r].w.reset = req[r].result.resetAt
    /\ (Denied(r) /\ req[r].w.custom) => mcfg.onLimit = "handles" /\ req[r].w.status = 0

C17_Witness ==
  /\ mcfg.onLimit = "declines"
  /\ \E r \in Reqs : req[r].out = "deny_rate" /\ req[r].w.status = 429
  /\ \E r \in Reqs : req[r].out = "deny_concurrency" /\ req[r].w.status = 429
  /\ \E r \in Reqs : req[r].out = "served" /\ req[r].pc = "done"

\* the requests that store.Allow admitted
AdmittedReqs == {r \in Reqs : req[r].allows = 1 /\ req[r].result.allowed}

\* C18: every admitted request carries X-RateLimit-Limit = max_tokens and
\* X-RateLimit-Remaining = the whole tokens left after its charge: on a fresh
\* key with cost 1 and no advance of time the k-th admitted request reports
\* max_tokens - k (k = 1..max_tokens), so the n requests admitted so far
\* report max_tokens - 1 down to max_tokens - n, and a request is answered
\* 429 by the rate check only when max_tokens requests were admitted before.
C18_RemainingCountsDown ==
  /\ \A r \in AdmittedReqs :
       /\ req[r].w.hdrs
       /\ req[r].w.limit = MaxTokens(pol)
       /\ req[r].w.remaining = req[r].result.remaining
       /\ req[r].calls = 1
  /\ Cardinality(AdmittedReqs) <= MaxTokens(pol)
  /\ {req[r].w.remaining : r \in AdmittedReqs} =
       {MaxTokens(pol) - k : k \in 1..Cardinality(AdmittedReqs)}
  /\ \A r \in AdmittedReqs :
       \A q \in AdmittedReqs : q # r => req[q].w.remaining # req[r].w.remaining
  /\ AdmittedReqs # {}
       => entries["a"].bucket.tokens =
            (MaxTokens(pol) - Cardinality(AdmittedReqs)) * pol.window
  /\ \A r \in Reqs :
       req[r].out = "deny_rate"
         => /\ Cardinality(AdmittedReqs) = MaxTokens(pol)
            /\ req[r].calls = 0
            /\ ~req[r].w.custom => req[r].w.status = 429 /\ req[r].w.retry >= 1

C18_Witness ==
  /\ MaxTokens(pol) > 1
  /\ Cardinality(AdmittedReqs) = MaxTokens(pol)
  /\ \E r \in AdmittedReqs : req[r].w.remaining = 0
  /\ \E r \in Reqs : req[r].out = "deny_rate" /\ req[r].w.status = 429
\* C19: a limiter with an invalid policy (limit = 0, hence refill_rate = 0)
\* is rejected when it is constructed, so that no request is ever served by
\* it and no store ever creates a bucket with refill_rate <= 0.
C19_InvalidPolicyRejected ==
  /\ pol.limit <= 0 => \A r \in Reqs : req[r].pc = "new"
  /\ \A k \in Keys : entries[k] # NoEntry => entries[k].bucket.limit > 0
DenyWritten(r) ==
  DenyResponse(IF req[r].out = "deny_rate"
               THEN SetRateLimitHeaders(NoResp, req[r].result) ELSE NoResp,
               req[r].result, mcfg.onLimit, FALSE)

\* C21: a deny-log write error does not affect the response: every denied
\* request carries the status, headers and body that denyResponse writes
\* when Log returns nil, whether its own Log returned an error or nil (or
\* was not called), and the bucket and the in-flight counter hold what the
\* admitted requests and the held slots alone account for.
C21_LogErrorHarmless ==
  /\ \A r \in Reqs :
       /\ Denied(r) => req[r].w = DenyWritten(r) /\ req[r].calls = 0
       /\ Denied(r) => req[r].logs = (IF mcfg.logStore = "none" THEN 0 ELSE 1)
       /\ ~Denied(r) => req[r].logs = 0
       /\ req[r].logErr => Denied(r) /\ mcfg.logStore = "db"
  /\ (\E r \in Reqs : req[r].allows > 0)
       => entries["a"].bucket.tokens =
            (MaxTokens(pol) - Cardinality(AdmittedReqs)) * pol.window
  /\ InflightOf(inflight, "a") =
       Cardinality({r \in Reqs : req[r].acq = 1 /\ req[r].rel = 0})

C21_Witness ==
  /\ mcfg.onLimit = "none"
  /\ \E r \in Reqs : req[r].out = "deny_rate" /\ req[r].logErr /\ req[r].w.status = 429
  /\ \E r \in Reqs : req[r].out = "deny_rate" /\ ~req[r].logErr /\ req[r].logs = 1
\* the addresses the trusted-proxy list names, by IP or by CIDR
TrustedAddrs(trusted) ==
  UNION {IF trusted[i].kind = "cidr" THEN trusted[i].net
         ELSE IF trusted[i].kind = "ip" THEN {trusted[i].ip} ELSE {}
         : i \in 1..Len(trusted)}

\* the peer of the last request is no trusted proxy
PeerUntrusted == ipq.addr.host.ip \notin TrustedAddrs(ipcfg)

\* C22: the forwarded headers of an untrusted peer have no influence: with
\* an empty trusted-proxy list, or a peer that is not in it, ClientIP is the
\* normalized peer IP and the key "ip:" + that IP for every X-Real-IP and
\* X-Forwarded-For, and the same request without the headers resolves to the
\* same client IP and key.
C22_UntrustedHeadersIgnored ==
  (ipq # NoIpReq /\ PeerUntrusted)
    => /\ ipres.ip = Plain(ipq.addr.host.ip)
       /\ ipres.key = [tag |-> "ip", ip |-> Plain(ipq.addr.host.ip)]
       /\ ipres.prev # NoIpReq
            => ipres.prev.ip = ipres.ip /\ ipres.prev.key = ipres.key

C22_Witness ==
  /\ ipq # NoIpReq
  /\ PeerUntrusted
  /\ ipcfg # <<>>
  /\ ipres.prev # NoIpReq
  /\ ipres.prev.real = Mapped(ProxyA)
  /\ ipres.prev.xff = <<Plain(ProxyB), Plain(ProxyA)>>
  /\ ipres.ip = Plain(ClientA)

\* the X-Forwarded-For entries: the pieces that are not empty once trimmed
XffEntries(xff) ==
  SelectSeq([i \in 1..Len(xff) |-> TrimSpace(xff[i])], LAMBDA t : t # EmptyText)

\* the entries that are not in the trusted list, by their position
UntrustedAt(ent, trusted) ==
  {i \in 1..Len(ent) : ent[i].form \in {"bad", "empty"}
                        \/ ent[i].ip \notin TrustedAddrs(trusted)}

\* the algorithm C23 states, for a peer that is a trusted proxy
Reference(addr, real, xff, trusted) ==
  LET ent  == XffEntries(xff)
      untr == UntrustedAt(ent, trusted)
  IN  IF real # EmptyText THEN NormalizeIP(TrimSpace(real))
      ELSE IF ent = <<>> THEN NormalizeIP(addr.host)
      ELSE IF untr # {} THEN NormalizeIP(ent[CHOOSE i \in untr : \A j \in untr : j <= i])
      ELSE NormalizeIP(ent[1])

\* C23: when the peer is a trusted proxy, ClientIP is what the reference
\* algorithm gives for every combination of headers: a non-empty X-Real-IP
\* wins; otherwise the first X-Forwarded-For entry from the right that is
\* not in the trusted list; the leftmost entry if every entry is trusted;
\* the peer IP if X-Forwarded-For is absent.
C23_MatchesReference ==
  (ipq # NoIpReq /\ ~PeerUntrusted)
    => ipres.ip = Reference(ipq.addr, ipq.real, ipq.xff, ipcfg)

\* the algorithm as the code has it: pieces that are empty once trimmed are
\* skipped by the walk, and when no entry is untrusted the leftmost piece is
\* returned if it is not empty, the peer IP otherwise
ReferenceSkipEmpty(addr, real, xff, trusted) ==
  LET ent  == XffEntries(xff)
      untr == UntrustedAt(ent, trusted)
  IN  IF real # EmptyText THEN NormalizeIP(TrimSpace(real))
      ELSE IF untr # {} THEN NormalizeIP(ent[CHOOSE i \in untr : \A j \in untr : j <= i])
      ELSE IF xff # <<>> /\ TrimSpace(xff[1]) # EmptyText THEN NormalizeIP(xff[1])
      ELSE NormalizeIP(addr.host)

\* C23, amended: when the peer is a trusted proxy, a non-empty X-Real-IP
\* wins; otherwise the X-Forwarded-For pieces that are not empty once trimmed
\* are walked right to left and the first one not in the trusted list is
\* returned; if there is none, the leftmost piece is returned when it is not
\* empty, and the peer IP when it is empty or X-Forwarded-For is absent.
C23_MatchesSkipEmpty ==
  (ipq # NoIpReq /\ ~PeerUntrusted)
    => ipres.ip = ReferenceSkipEmpty(ipq.addr, ipq.real, ipq.xff, ipcfg)

C23_Witness ==
  /\ ipq # NoIpReq
  /\ ipq.addr.host = Plain(ProxyB)
  /\ ipq.real = EmptyText
  /\ ipq.xff = <<Plain(ClientA), Plain(ProxyA)>>
  /\ ipres.ip = Plain(ClientA)
  /\ ipres.prev = NoIpReq

\* C24: by_ip_and_identifier maps two requests from the same client IP to
\* the same key exactly when their identifier values are equal after
\* trimming and lower-casing: a request has the key of the earlier requests
\* of its identity and of no other identity, it is admitted exactly when
\* fewer than limit requests of its identity were admitted before, and a
\* first request of an identity finds a full bucket whatever the others used.
C24_SameKeyIffSameIdentifier ==
  ipq # NoIpReq
    => /\ ipres.before.key # NoIpReq => ipres.key = ipres.before.key
       /\ ipres.key \notin ipres.others
       /\ ipres.out.allowed <=> ipres.before.admitted < MaxTokens(pol)
       /\ ipres.out.allowed
            => ipres.out.remaining = MaxTokens(pol) - ipres.before.admitted - 1

C24_Witness ==
  /\ ipq # NoIpReq
  /\ ipq.method = "POST"
  /\ ipres.id = [ip |-> ClientA, name |-> "bob@example.com"]
  /\ ipres.before = NotSeen
  /\ ipres.out.allowed
  /\ ipres.out.remaining = MaxTokens(pol) - 1
  /\ LET alice == ipres.seen[[ip |-> ClientA, name |-> "alice@example.com"]]
     IN  /\ alice.admitted = MaxTokens(pol)
         /\ alice.denied
         /\ Cardinality(alice.raws) = 2
         /\ entries[alice.key].bucket.tokens = 0

\* C25: with the RedisConcurrencyStore, no Redis errors and no TTL expiry,
\* in every interleaving of the acquire script and of the DECR and the DEL
\* of release: an acquire that finds the count >= limit returns false and
\* leaves the count alone, one that finds it below increments it and
\* returns true, and at most limit requests hold a slot of a key at a time.
C25_RedisConcBound ==
  /\ \A r \in Reqs :
       /\ req[r].slot = "refused" => req[r].cur >= mcfg.conc /\ req[r].acq = 0
       /\ req[r].slot = "got" => req[r].cur < mcfg.conc /\ req[r].acq = 1
  /\ \A k \in Keys : Cardinality(Holders(k)) <= mcfg.conc

\* C27: a bucket's last_refill never decreases, in the Bucket and in the
\* Redis script: an allow whose timestamp is not later than last_refill adds
\* no tokens (the tokens change by the charge only) and leaves last_refill
\* as it was, and an allow with a later timestamp sets last_refill to it.
C27_LastRefillMonotone ==
  /\ bres.kind = "allow"
       => /\ bkt.lastRefill >= bres.before
          /\ bres.now > bres.before => bkt.lastRefill = bres.now
          /\ bres.now <= bres.before
               => /\ bkt.lastRefill = bres.before
                  /\ bkt.tokens = bres.raw - (IF bres.allowed
                                              THEN bres.cost * bkt.window ELSE 0)
  /\ (rres.kind = "allow" /\ rres.before >= 0)
       => /\ rdb["a"].lastMs >= rres.before
          /\ rres.now > rres.before => rdb["a"].lastMs = rres.now
          /\ rres.now <= rres.before
               => /\ rdb["a"].lastMs = rres.before
                  /\ rdb["a"].tokens = rres.had - (IF rres.out.allowed
                                                  THEN rres.cost * TokUnit ELSE 0)

C27_Witness ==
  /\ rres.kind = "allow"
  /\ rres.before > 0
  /\ rres.now < rres.before
  /\ rres.out.allowed
  /\ rdb["a"].tokens = 0

\* C28: in both stores a denied allow returns remaining = 0 and charges
\* nothing: the tokens are what the refill alone left (at most max_tokens,
\* fewer than cost), for every cost >= 1, also one above the tokens there.
C28_DeniedRemainingZero ==
  /\ (res.kind = "allow" /\ ~res.out.allowed)
       => /\ res.out.remaining = 0
          /\ entries[res.key].bucket.tokens < res.cost * pol.window
  /\ (rres.kind = "allow" /\ rres.err = "none" /\ ~rres.out.allowed)
       => /\ rres.out.remaining = 0
          /\ rdb[rres.key].tokens < rres.cost * TokUnit

\* C29: every allow, admitted or denied, sets the entry's expires_at to
\* now + 2*window; a sweep deletes an entry only if its expires_at is earlier
\* than the sweep's tick time (an entry accessed less than 2*window before
\* the sweep stays) and leaves every entry it does not delete as it was.
C29_ExpiryAndSweep ==
  /\ [](res.kind = "allow"
         => /\ entries[res.key] # NoEntry
            /\ entries[res.key].expiresAt = res.now + 2 * pol.window)
  /\ [][res'.kind = "sweep"
         => \A k \in Keys :
              \/ entries'[k] = entries[k]
              \/ /\ entries[k] # NoEntry
                 /\ entries'[k] = NoEntry
                 /\ entries[k].expiresAt < res'.now
                 /\ clock - (entries[k].expiresAt - 2 * pol.window) >= 2 * pol.window]_vars

C29_Witness ==
  /\ res.kind = "sweep"
  /\ entries["a"] # NoEntry
  /\ entries["a"].expiresAt = res.now
  /\ entries["a"].bucket.tokens < pol.window

\* C30: close() signals and joins the sweeper: once close() has returned
\* the sweeper has terminated, and no sweep runs while the stop channel is
\* closed.
C30_CloseJoinsSweeper ==
  /\ stop = "closed" => swp = "exited"
  /\ res.kind = "sweep" => stop = "open"

\* C26: after Close the cleanup goroutine eventually returns, wherever it
\* stood when Close was called; it never returns while it holds s.mu; the
\* mutex is free again and again, and Allow and Reset called after Close do
\* their work.
C26_SweeperStops ==
  /\ (stop = "closed") ~> (swp = "exited")
  /\ [](swp = "exited" => mu = 0)
  /\ []<>(mu = 0)
  /\ []((stop = "closed" /\ res.kind = "allow")
          => /\ entries[res.key] # NoEntry
             /\ entries[res.key].expiresAt = res.now + 2 * pol.window
             /\ (res.fresh /\ res.cost <= MaxTokens(pol)) => res.out.allowed)
  /\ []((stop = "closed" /\ res.kind = "reset") => entries[res.key] = NoEntry)

C26_Witness ==
  /\ swp = "exited"
  /\ sw.at = "sweep"
  /\ mu = 0
  /\ res.kind = "allow"
  /\ res.out.allowed
  /\ ~res.fresh

\* C36: in MemoryConcurrencyStore, after any sequence of Acquire(key, L) and
\* Release(key) with one L >= 1, every key's count is in 0..L and the map
\* holds no count of 0; Acquire returns false exactly when the count is
\* already >= L and then changes nothing, otherwise it adds one; Release on
\* a count of 0 changes nothing, otherwise it takes one off that key only.
C36_MemConcCounts ==
  /\ [](\A k \in DOMAIN inflight : inflight[k] >= 1 /\ inflight[k] <= mcfg.conc)
  /\ [](req[1].out = "acquire"
          => /\ req[1].slot = "refused" <=> req[1].cur >= mcfg.conc
             /\ req[1].val = IF req[1].slot = "refused" THEN req[1].cur
                             ELSE req[1].cur + 1)
  /\ [](req[1].out = "release"
          => req[1].val = IF req[1].cur = 0 THEN 0 ELSE req[1].cur - 1)
  /\ [][/\ (req'[1].slot = "refused" \/ (req'[1].out = "release" /\ req'[1].cur = 0))
            => inflight' = inflight
        /\ \A k \in Keys : k # req'[1].key
            => InflightOf(inflight', k) = InflightOf(inflight, k)]_vars

C36_Witness ==
  /\ req[1].out = "release"
  /\ req[1].cur = 1
  /\ req[1].key = "a"
  /\ "a" \notin DOMAIN inflight
  /\ "b" \in DOMAIN inflight
  /\ inflight["b"] = mcfg.conc
  /\ mcfg.conc = MaxConc

\* the holders of key k whose Acquire incremented the counter
Counted(k) == {r \in Holders(k) : req[r].val = req[r].cur + 1}

\* C40: with the RedisConcurrencyStore a release is applied only to a slot
\* that was incremented: the stored count of a key is never below the number
\* of requests that hold an incremented, not yet released slot of it, also
\* when an Acquire failed open on a Redis error.
C40_ReleaseOwnSlotOnly ==
  \A k \in Keys : InflightOf(inflight, k) >= Cardinality(Counted(k))

\* the tokens (times the window) of key k once refilled at the clock: a
\* full bucket if the key has no entry
RefilledAt(k) ==
  IF entries[k] = NoEntry THEN MaxTokens(pol) * pol.window
  ELSE Min(MaxTokens(pol) * pol.window,
           entries[k].bucket.tokens
             + Max(0, clock - entries[k].bucket.lastRefill) * pol.limit)

\* C33: the middleware charges max(1, policy.Cost) tokens for every request
\* it admits, so a Cost of 0 or below is charged as 1; a denied request is
\* charged nothing; no request leaves the bucket with more tokens than it
\* had after the refill.
C33_CostAtLeastOne ==
  /\ [][\A r \in Reqs :
          (req[r].pc = "rate" /\ req'[r].pc # "rate")
            => /\ entries'[req[r].key].bucket.tokens <= RefilledAt(req[r].key)
               /\ entries'[req[r].key].bucket.tokens
                    = RefilledAt(req[r].key)
                        - (IF req'[r].result.allowed
                           THEN (IF mcfg.cost <= 0 THEN 1 ELSE mcfg.cost) * pol.window
                           ELSE 0)]_vars
  /\ [](\A r \in Reqs :
          (req[r].allows = 1 /\ req[r].result.allowed)
            => req[r].result.remaining <= MaxTokens(pol) - 1)

C33_Witness ==
  /\ mcfg.cost < 0
  /\ MaxTokens(pol) = 1
  /\ req[1].out = "deny_rate"
  /\ req[2].result.allowed
  /\ req[2].allows = 1
  /\ req[3].out = "deny_rate"
  /\ entries["a"].bucket.tokens = 0

\* C32: with a log store configured, logStore.Log is called exactly once for
\* every denied request (rate or concurrency) with the policy's scope, the
\* key's type and the denial's retry_after, and never for a request that is
\* admitted, bypassed by the allowlist or passed by a switched-off limiter;
\* so it is when an OnLimit callback takes the response over, and then no
\* status, Retry-After or body of the default 429 is written.
C32_DenyLoggedOnce ==
  \A r \in Reqs :
    /\ req[r].out \in {"deny_rate", "deny_concurrency"}
         => /\ req[r].logs = 1
            /\ req[r].entry = [keyType |-> KeyTypeOf(req[r].key),
                               scope |-> PolicyScope,
                               retryAfter |-> req[r].result.retryAfter]
            /\ req[r].entry.retryAfter >= 1
            /\ mcfg.onLimit = "handles"
                 => /\ req[r].w.custom
                    /\ req[r].w.status = 0
                    /\ ~req[r].w.retrySet
                    /\ req[r].w.body = -1
            /\ mcfg.onLimit # "handles"
                 => req[r].w.status = 429 /\ req[r].w.body = req[r].entry.retryAfter
    /\ req[r].out \notin {"deny_rate", "deny_concurrency"}
         => /\ req[r].logs = 0
            /\ req[r].entry.retryAfter = -1
    /\ (req[r].listed \/ KillSwitch(mcfg)) => req[r].logs = 0

C32_Witness ==
  /\ mcfg.onLimit = "handles"
  /\ \E r \in Reqs : /\ req[r].out = "deny_rate"
                      /\ req[r].entry.retryAfter = 2
                      /\ req[r].entry.keyType = "user"
                      /\ req[r].w.custom
  /\ \E r \in Reqs : req[r].out = "deny_concurrency" /\ req[r].logs = 1

\* C34: RedisStore.Allow hands the script ttl_seconds = 2 * window_seconds,
\* positive for every positive window, also one below a second or with a
\* fraction of a second: the record an allow writes is there until
\* 2*window after that allow.
C34_TtlTwoWindows ==
  (rres.kind = "allow" /\ rres.err = "none")
    => /\ rdb[rres.key] # NoEntry
       /\ rdb[rres.key].expireAt >= rres.now + 2 * pol.window

\* C35: for every policy with limit >= 1 and a positive window the
\* refill_rate RedisStore.Allow hands the script, limit / window_seconds
\* with four decimals, is above 0, so a bucket that is not full has gained
\* tokens whenever an allow finds it at a later time.
C35_RatePositive ==
  rres.kind = "allow"
    => /\ rres.rate > 0
       /\ (rres.err = "none" /\ rres.before >= 0 /\ rres.now > rres.before
             /\ rres.had < MaxTokens(pol) * TokUnit)
            => rres.tokens + (IF rres.out.allowed THEN rres.cost * TokUnit ELSE 0)
                 > rres.had

\* the last request carries a bearer token that is not empty
HasToken ==
  /\ ipq.auth.scheme \in {"Bearer", "bearer"}
  /\ ipq.auth.rest.tok # ""

\* the last request has an authenticated session with a user id
HasUser ==
  /\ ~ipq.sess.nil
  /\ ipq.sess.authed
  /\ ipq.sess.uid \in {"u1", "u2"}

\* C37: KeyByTokenElseUserElseIP chooses by strict precedence: a request
\* with a non-empty bearer token gets the token: key of that token whatever
\* its session and IP; otherwise an authenticated session with a user id
\* gets the user: key of that id; otherwise the key is ip: and the client
\* IP; the key type is always the key's tag.
C37_KeyPrecedence ==
  ipq # NoIpReq
    => /\ HasToken
            => ipres.key = [tag |-> "token", hash |-> [sha256 |-> ipq.auth.rest.tok]]
       /\ (~HasToken /\ HasUser)
            => ipres.key = [tag |-> "user", uid |-> ipq.sess.uid]
       /\ (~HasToken /\ ~HasUser)
            => /\ ipres.key.tag = "ip"
               /\ ipres.key.ip = ipq.addr.host
       /\ ipres.keyType = ipres.key.tag

C37_Witness ==
  /\ ipq # NoIpReq
  /\ HasToken
  /\ HasUser
  /\ ipq.auth.scheme = "bearer"
  /\ ipq.auth.rest.pad
  /\ ipres.keyType = "token"

\* C31: the middleware never holds the store's mutex while the downstream
\* handler runs: whoever holds it is inside store.Allow, so no request in
\* its handler (or anywhere else in the middleware) holds it and an allow of
\* another request, same key or not, gets the lock and returns; what spans
\* acquire -> downstream -> release is the concurrency slot alone, counted
\* in the concurrency store for every request from its acquire to its release.
C31_NoLockAcrossHandler ==
  /\ \A r \in Reqs : mu = r => req[r].pc = "allow"
  /\ \A r \in Reqs : req[r].pc = "handler" => mu # r
  /\ \A r \in Reqs : (req[r].pc = "handler" /\ req[r].allows > 0) => req[r].held
  /\ (\E r \in Reqs : req[r].pc = "handler")
       => \A q \in Reqs : req[q].pc = "rate" => (mu = 0 \/ req[mu].pc = "allow")
  /\ \A k \in Keys :
       InflightOf(inflight, k) =
         Cardinality({r \in Reqs : req[r].key = k /\ req[r].held
                                   /\ req[r].pc \in {"rate", "allow", "handler", "release"}})

C31_Witness ==
  /\ req[1].pc = "handler"
  /\ req[1].allows > 0
  /\ req[1].held
  /\ req[2].pc = "allow"
  /\ req[2].key = req[1].key
  /\ mu = 2
  /\ req[3].pc = "handler"
  /\ req[3].key # req[1].key

\* C38: eviction is invisible to admission: whatever the policy, every allow
\* of a store whose expired entries are evicted and re-created full gets the
\* same allowed/denied answer as the same allow on a store that kept the
\* entry and refilled it, and the evicted store's bucket never holds more
\* tokens than the kept one.
C38_EvictionInvisible ==
  /\ res.kind = "allow" => res.out.allowed = res.soloOut.allowed
  /\ \A k \in keys :
       (entries[k] # NoEntry /\ solo[k][k] # NoEntry)
         => Refill(entries[k].bucket, clock).tokens
              <= Refill(solo[k][k].bucket, clock).tokens

\* the same with the burst no larger than the limit
C38_BurstWithinLimit ==
  pol.burst <= pol.limit => C38_EvictionInvisible

\* C39: every Result of MemoryStore.Allow has 0 <= remaining <= limit, and
\* the bucket the decision was taken on has the max_tokens and the refill
\* rate (limit per window) of the policy passed to that call, also when the
\* key was used with another policy before.
C39_ResultWithinPolicy ==
  res.kind = "allow" =>
    /\ 0 <= res.out.remaining
    /\ res.out.remaining <= res.out.limit
    /\ res.out.limit = MaxTokens(pol)
    /\ entries[res.key].bucket.max = MaxTokens(pol) * pol.window
    /\ entries[res.key].bucket.limit = pol.limit
    /\ entries[res.key].bucket.window = pol.window
====
